---- MODULE Spec2Model ----
(***************************************************************************)
(* A model of gemrb/core/Map.cpp: the packed tile-property store, the      *)
(* footprint painter, the search-map queries, the fog bitmaps, the wall     *)
(* groups with the stencil cache, and the actor queues of a tick.          *)
(***************************************************************************)
EXTENDS Integers, Sequences, FiniteSets, TLC

VARIABLES
    tileProps,       \* [propPtr: cell index -> 32-bit word, wild: BOOLEAN]
    actors,          \* actor id -> [SMPos, circleSize, pc, dead, sched, blocks, ...]
    ExploredBitmap,  \* set of fog points whose Explored bit is set
    VisibleBitmap,   \* set of fog points whose Visible bit is set
    env,             \* [cutscene, LargeFog, AreaType]
    last,            \* the operation executed last, with its arguments and result
    nops,            \* number of operations executed so far
    walls,           \* wall polygon id -> [BBox, disabled, behind]
    objects,         \* drawable object id -> [type, alive, Pos]
    objectStencils,  \* object id -> [stencil, rgn], the cached custom stencils
    stencilViewport, \* the viewport wallStencil was drawn for
    stencilWalls,    \* the walls drawn into wallStencil
    queue,           \* priority -> sequence of actor ids
    hostilesVisible  \* a hostile was visible in the last GenerateQueues pass

vars == <<tileProps, actors, ExploredBitmap, VisibleBitmap, env, last, nops,
          walls, objects, objectStencils, stencilViewport, stencilWalls, queue, hostilesVisible>>
DrawVars == <<walls, objects, objectStencils, stencilViewport, stencilWalls>>
QueueVars == <<queue, hostilesVisible>>

(***************************************************************************)
(* Bounds of the model.                                                    *)
(***************************************************************************)
MapW == 3
MapH == 2
MaxTileOps == 2

(***************************************************************************)
(* Bit arithmetic.  A byte is 0..255; a 32-bit word is kept as four byte   *)
(* lanes, lane l holding bits 8(l-1) .. 8l-1.                              *)
(***************************************************************************)
RECURSIVE BitAndN(_, _, _)
BitAndN(a, b, n) ==
    IF n = 0 THEN 0
    ELSE (a % 2) * (b % 2) + 2 * BitAndN(a \div 2, b \div 2, n - 1)

\* a & b for every pair of 4-bit halves, computed once
AndTable ==
    LET Row(a) == SubSeq([j \in 1 .. 16 |-> BitAndN(a, j - 1, 4)], 1, 16)
    IN SubSeq([i \in 1 .. 16 |-> Row(i - 1)], 1, 16)

And8(a, b) ==
    AndTable[(a % 16) + 1][(b % 16) + 1] + 16 * AndTable[(a \div 16) + 1][(b \div 16) + 1]
Or8(a, b) == a + b - And8(a, b)
Not8(a) == 255 - a

U32(b) == <<b, 0, 0, 0>>
W32And(a, b) == <<And8(a[1], b[1]), And8(a[2], b[2]), And8(a[3], b[3]), And8(a[4], b[4])>>
W32Or(a, b) == <<Or8(a[1], b[1]), Or8(a[2], b[2]), Or8(a[3], b[3]), Or8(a[4], b[4])>>
W32Not(a) == <<Not8(a[1]), Not8(a[2]), Not8(a[3]), Not8(a[4])>>
LaneAt(w, j) == IF j >= 1 /\ j <= 4 THEN w[j] ELSE 0
\* shifts by whole bytes (every shift of the store is 0, 8, 16 or 24)
Shl(w, s) == <<LaneAt(w, 1 - (s \div 8)), LaneAt(w, 2 - (s \div 8)),
               LaneAt(w, 3 - (s \div 8)), LaneAt(w, 4 - (s \div 8))>>
Shr(w, s) == <<LaneAt(w, 1 + (s \div 8)), LaneAt(w, 2 + (s \div 8)),
               LaneAt(w, 3 + (s \div 8)), LaneAt(w, 4 + (s \div 8))>>
ToU8(w) == w[1]

\* C integer division truncates toward zero.
CDiv(a, b) == IF a >= 0 THEN a \div b ELSE -((-a) \div b)

Clamp(v, lo, hi) == IF v < lo THEN lo ELSE IF v > hi THEN hi ELSE v

Pt(x, y) == [x |-> x, y |-> y]

(***************************************************************************)
(* PathMapFlags.                                                           *)
(***************************************************************************)
UNMARKED == 0
IMPASSABLE == 0
PASSABLE == 1
TRAVEL == 2
NO_SEE == 4
SIDEWALL == 8
AREAMASK == 15
DOOR_OPAQUE == 16
DOOR_IMPASSABLE == 32
PC == 64
NPC == 128
ACTOR == Or8(PC, NPC)
DOOR == Or8(DOOR_OPAQUE, DOOR_IMPASSABLE)
NOTACTOR == Or8(DOOR, AREAMASK)

(***************************************************************************)
(* TileProps: layout of the packed cell and the defaults.                  *)
(***************************************************************************)
MAX_CIRCLESIZE == 8

searchMapShift == 24
materialMapShift == 16
heightMapShift == 8
lightMapShift == 0

searchMapMask == Shl(U32(255), 24)
materialMapMask == Shl(U32(255), 16)
heightMapMask == Shl(U32(255), 8)
lightMapMask == Shl(U32(255), 0)

defaultSearchMap == IMPASSABLE
defaultMaterial == 0
defaultElevation == 128
defaultLighting == 0

Property == {"SEARCH_MAP", "MATERIAL", "ELEVATION", "LIGHTING"}

\* propImage->Format().Rshift: the property image is created with
\* TileProps::pixelFormat, whose red channel is the search map.
Rshift == searchMapShift

size == [w |-> MapW, h |-> MapH]

PointInside(sz, p) == p.x >= 0 /\ p.y >= 0 /\ p.x < sz.w /\ p.y < sz.h

CellIndex(p) == p.y * size.w + p.x

MkCell(s, m, h, l) == <<l, h, m, s>>

\* A store through a raw pointer: an index inside the array updates that
\* element; an index outside it is a write to foreign memory, recorded in wild.
Poke(tp, idx, w) ==
    IF idx \in DOMAIN tp.propPtr
    THEN [tp EXCEPT !.propPtr[idx] = w]
    ELSE [tp EXCEPT !.wild = TRUE]

MaskOf(prop) ==
    CASE prop = "SEARCH_MAP" -> searchMapMask
      [] prop = "MATERIAL" -> materialMapMask
      [] prop = "ELEVATION" -> heightMapMask
      [] prop = "LIGHTING" -> lightMapMask

ShiftOf(prop) ==
    CASE prop = "SEARCH_MAP" -> searchMapShift
      [] prop = "MATERIAL" -> materialMapShift
      [] prop = "ELEVATION" -> heightMapShift
      [] prop = "LIGHTING" -> lightMapShift

DefaultOf(prop) ==
    CASE prop = "SEARCH_MAP" -> defaultSearchMap
      [] prop = "MATERIAL" -> defaultMaterial
      [] prop = "ELEVATION" -> defaultElevation
      [] prop = "LIGHTING" -> defaultLighting

SetTilePropNoCheck(tp, p, prop, val) ==
    LET c == IF CellIndex(p) \in DOMAIN tp.propPtr THEN tp.propPtr[CellIndex(p)] ELSE U32(0)
    IN Poke(tp, CellIndex(p), W32Or(W32And(c, W32Not(MaskOf(prop))), Shl(U32(val), ShiftOf(prop))))

SetTilePropWrongMask(tp, p, prop, val) ==
    IF PointInside(size, p)
    THEN LET c == tp.propPtr[CellIndex(p)]
         IN Poke(tp, CellIndex(p),
                 W32Or(W32And(c, W32Not(W32Or(MaskOf(prop), lightMapMask))),
                       Shl(U32(val), ShiftOf(prop))))
    ELSE tp

SetTileProp(tp, p, prop, val) ==
    IF PointInside(size, p)
    THEN LET c == tp.propPtr[CellIndex(p)]
         IN Poke(tp, CellIndex(p),
                 W32Or(W32And(c, W32Not(MaskOf(prop))), Shl(U32(val), ShiftOf(prop))))
    ELSE tp

QueryTileProp(tp, p, prop) ==
    IF PointInside(size, p)
    THEN ToU8(Shr(W32And(tp.propPtr[CellIndex(p)], MaskOf(prop)), ShiftOf(prop)))
    ELSE DefaultOf(prop)

QuerySearchMap(tp, p) == QueryTileProp(tp, p, "SEARCH_MAP")

PaintSearchMap(tp, p, value) ==
    IF ~PointInside(size, p)
    THEN tp
    ELSE LET pixel == tp.propPtr[CellIndex(p)]
         IN Poke(tp, CellIndex(p),
                 W32Or(W32And(pixel, W32Not(searchMapMask)), Shl(U32(value), Rshift)))

(***************************************************************************)
(* The midpoint circle and the footprint painter.                          *)
(***************************************************************************)
RECURSIVE CircleLoop(_, _, _, _, _)
CircleLoop(x, y, xc, yc, re) ==
    IF x < y THEN <<>>
    ELSE LET re1 == re + yc
             dec == (2 * re1) + xc > 0
         IN <<Pt(x, y)>> \o CircleLoop(IF dec THEN x - 1 ELSE x, y + 1,
                                       IF dec THEN xc + 2 ELSE xc, yc + 2,
                                       IF dec THEN re1 + xc ELSE re1)

\* The (x, y) octant steps of a circle of radius r.
MidpointCircle(r) == CircleLoop(r, 0, 1 - (2 * r), 1, 0)

RECURSIVE Flatten(_)
Flatten(ss) == IF ss = <<>> THEN <<>> ELSE Head(ss) \o Flatten(Tail(ss))

\* Points come in pairs of one row: the right end first, then the left end.
PlotCircle(origin, r) ==
    LET st == MidpointCircle(r)
        Eight(s) == << Pt(origin.x + s.x, origin.y + s.y), Pt(origin.x - s.x, origin.y + s.y),
                       Pt(origin.x + s.y, origin.y + s.x), Pt(origin.x - s.y, origin.y + s.x),
                       Pt(origin.x + s.x, origin.y - s.y), Pt(origin.x - s.x, origin.y - s.y),
                       Pt(origin.x + s.y, origin.y - s.x), Pt(origin.x - s.y, origin.y - s.x) >>
    IN Flatten([k \in 1 .. Len(st) |-> Eight(st[k])])

\* for (i = 0; i < points.size(); i += 2) for (x = p2.x; x <= p1.x; ++x): the
\* cells visited, in order.
ScanCells(points) ==
    LET Span(p1, p2) == [k \in 1 .. (p1.x - p2.x + 1) |-> Pt(p2.x + k - 1, p1.y)]
    IN Flatten([i \in 1 .. (Len(points) \div 2) |-> Span(points[2 * i - 1], points[2 * i])])

Range(s) == {s[k] : k \in DOMAIN s}

\* The scans of the circles around the origin, computed once.
OriginScans ==
    LET O == Pt(0, 0)
    IN << ScanCells(PlotCircle(O, 0)), ScanCells(PlotCircle(O, 1)), ScanCells(PlotCircle(O, 2)),
          ScanCells(PlotCircle(O, 3)), ScanCells(PlotCircle(O, 4)), ScanCells(PlotCircle(O, 5)),
          ScanCells(PlotCircle(O, 6)), ScanCells(PlotCircle(O, 7)) >>

\* ScanCells(PlotCircle(p, r)) for r < MAX_CIRCLESIZE: PlotCircle adds the origin
\* to each point.
DiscScan(p, r) ==
    LET scan == OriginScans[r + 1]
    IN [k \in 1 .. Len(scan) |-> Pt(p.x + scan[k].x, p.y + scan[k].y)]

PaintIfPassableNoMask(tp, pos, value) ==
    LET mapval == QuerySearchMap(tp, pos)
        newVal == Or8(mapval, value)
        idx == CellIndex(pos)
        pixel == IF idx \in DOMAIN tp.propPtr THEN tp.propPtr[idx] ELSE U32(0)
    IN IF mapval # IMPASSABLE
       THEN Poke(tp, idx, W32Or(W32And(pixel, W32Not(searchMapMask)), Shl(U32(newVal), Rshift)))
       ELSE tp

PaintIfPassable(tp, pos, value) ==
    LET mapval == QuerySearchMap(tp, pos)
        newVal == Or8(And8(mapval, NOTACTOR), value)
        idx == CellIndex(pos)
        pixel == IF idx \in DOMAIN tp.propPtr THEN tp.propPtr[idx] ELSE U32(0)
    IN IF mapval # IMPASSABLE
       THEN Poke(tp, idx, W32Or(W32And(pixel, W32Not(searchMapMask)), Shl(U32(newVal), Rshift)))
       ELSE tp

\* PaintIfPassable applied at each of the positions, in order.
RECURSIVE PaintEach(_, _, _)
PaintEach(tp, cells, value) ==
    IF cells = <<>> THEN tp
    ELSE PaintEach(PaintIfPassable(tp, Head(cells), value), Tail(cells), value)

PaintRadiusOfQuery(blocksize) == Clamp(blocksize, 2, MAX_CIRCLESIZE) - 2

\* The radius the footprint painter stamps for a requested size.
PaintRadius(blocksize) == Clamp(blocksize, 1, MAX_CIRCLESIZE) - 1

\* TileProps::PaintSearchMap(p, blocksize, value)
\* A visit reads and writes only the element its position indexes, so the
\* final value of an element is the visits to it applied in order.  A position
\* indexing outside the array lies outside the bounds, where every read is the
\* default: all such visits behave alike.
PaintSearchMapCircle(tp, p, blocksize, value) ==
    LET visits == DiscScan(p, PaintRadius(blocksize))
        inside == SelectSeq(visits, LAMBDA pos : CellIndex(pos) \in DOMAIN tp.propPtr)
        outside == {k \in DOMAIN visits : CellIndex(visits[k]) \notin DOMAIN tp.propPtr}
        To(j) == SelectSeq(inside, LAMBDA pos : CellIndex(pos) = j)
    IN [propPtr |-> [j \in DOMAIN tp.propPtr |-> PaintEach(tp, To(j), value).propPtr[j]],
        wild |-> \/ tp.wild
                 \/ /\ outside # {}
                    /\ PaintIfPassable(tp, visits[CHOOSE k \in outside : TRUE], value).wild]

(***************************************************************************)
(* SearchMap queries.                                                      *)
(***************************************************************************)
Has(flags, mask) == And8(flags, mask) # 0
Clear8(flags, mask) == And8(flags, Not8(mask))

\* ret |= f for every f of the set, from ret = IMPASSABLE
OrAll(S) ==
    LET B(b) == IF \E f \in S : Has(f, b) THEN b ELSE 0
    IN B(1) + B(2) + B(4) + B(8) + B(16) + B(32) + B(64) + B(128)

\* if (bool(ret & TRAVEL)) ret |= PASSABLE;
TravelIsPassable(ret) == IF Has(ret, TRAVEL) THEN Or8(ret, PASSABLE) ELSE ret
\* if (bool(ret & (DOOR_IMPASSABLE | ACTOR))) ret &= ~PASSABLE;
OccupiedIsBlocked(ret) ==
    IF Has(ret, Or8(DOOR_IMPASSABLE, ACTOR)) THEN Clear8(ret, PASSABLE) ELSE ret
\* if (bool(ret & (DOOR_IMPASSABLE | ACTOR | SIDEWALL))) ret &= ~PASSABLE;
WalledIsBlocked(ret) ==
    IF Has(ret, Or8(Or8(DOOR_IMPASSABLE, ACTOR), SIDEWALL)) THEN Clear8(ret, PASSABLE) ELSE ret
\* if (bool(ret & DOOR_OPAQUE)) ret = SIDEWALL;
OpaqueIsSidewall(ret) == IF Has(ret, DOOR_OPAQUE) THEN SIDEWALL ELSE ret

\* Map::GetBlockedTile(p)
GetBlockedTile(tp, p) ==
    OpaqueIsSidewall(OccupiedIsBlocked(TravelIsPassable(QuerySearchMap(tp, p))))

\* the closing steps shared by the radius and the line queries
Combine(ret) == OpaqueIsSidewall(WalledIsBlocked(ret))

AccumulateNoStop(flags, stopOnImpassable) == Combine(OrAll(flags))

\* The loop and the closing steps of the radius and the line queries, given
\* the block status of every cell visited.  The early return yields IMPASSABLE
\* whichever cell triggers it, so the order of the visits does not show.
Accumulate(flags, stopOnImpassable) ==
    IF stopOnImpassable /\ IMPASSABLE \in flags
    THEN IMPASSABLE
    ELSE Combine(OrAll(flags))

\* The radius the blocking query scans for a requested size.
BlockRadius(sz) == Clamp(sz, 2, MAX_CIRCLESIZE) - 2

\* the cells the radius query visits
RadiusCells(p, sz) ==
    IF BlockRadius(sz) = 0 THEN <<p, p>> ELSE DiscScan(p, BlockRadius(sz))

\* the block status of each cell the radius query visits
RadiusFlags(tp, p, sz) == {GetBlockedTile(tp, c) : c \in Range(RadiusCells(p, sz))}

\* Map::GetBlockedInRadiusTile
GetBlockedInRadiusTile(tp, p, sz, stopOnImpassable) ==
    Accumulate(RadiusFlags(tp, p, sz), stopOnImpassable)

\* the int size converts to the uint16_t parameter of the radius query
GetBlockedTileSized(tp, p, sz) ==
    IF sz = -1 THEN GetBlockedTile(tp, p) ELSE GetBlockedInRadiusTile(tp, p, sz % 65536, FALSE)

\* NormalizeDeltas: one step toward the destination, never past it, of at
\* most stride units on each axis (unit steps when no mover is given).
Sign(v) == IF v > 0 THEN 1 ELSE IF v < 0 THEN -1 ELSE 0
Abs(v) == IF v < 0 THEN -v ELSE v
Min(a, b) == IF a < b THEN a ELSE b
NormalizeDeltas(d, stride) == Sign(d) * Min(Abs(d), stride)

\* while (p != d) { ...; p.x += dx; p.y += dy; ... }: the points stepped onto
RECURSIVE LinePath(_, _, _)
LinePath(p, d, stride) ==
    IF p = d THEN <<>>
    ELSE LET q == Pt(p.x + NormalizeDeltas(d.x - p.x, stride),
                     p.y + NormalizeDeltas(d.y - p.y, stride))
         IN <<q>> \o LinePath(q, d, stride)

NoCaller == [none |-> TRUE]
Stride(caller) == IF caller = NoCaller THEN 1 ELSE caller.stride

\* the block status of one cell of a line
LineStatus(tp, smp, stopOnImpassable, caller) ==
    IF stopOnImpassable /\ caller # NoCaller
    THEN GetBlockedInRadiusTile(tp, smp, caller.circleSize, FALSE)
    ELSE GetBlockedTile(tp, smp)

\* the cells a line over the search map stops on, but for the start cell
LineTileCells(s, d, caller) == Range(LinePath(s, d, Stride(caller))) \ {s}

\* Map::GetBlockedInLineTile
GetBlockedInLineTile(tp, s, d, stopOnImpassable, caller) ==
    Accumulate({LineStatus(tp, c, stopOnImpassable, caller) : c \in LineTileCells(s, d, caller)},
               stopOnImpassable)

\* SearchmapPoint(NavmapPoint): a search-map cell is 16 x 12 pixels
TileW == 16
TileH == 12
SearchmapPoint(p) == Pt(CDiv(p.x, TileW), CDiv(p.y, TileH))

\* the cells a line over the map passes, but for the cell it starts in
LineCells(s, d, caller) ==
    {SearchmapPoint(q) : q \in Range(LinePath(s, d, Stride(caller)))} \ {SearchmapPoint(s)}

\* Map::GetBlockedInLine
GetBlockedInLine(tp, s, d, stopOnImpassable, caller) ==
    Accumulate({LineStatus(tp, c, stopOnImpassable, caller) : c \in LineCells(s, d, caller)},
               stopOnImpassable)

IsVisibleLOSTileWalkable(tp, s, d, caller) ==
    /\ ~Has(GetBlockedInLineTile(tp, s, d, FALSE, caller), SIDEWALL)
    /\ Has(GetBlockedInLineTile(tp, s, d, FALSE, caller), PASSABLE)

\* Map::IsVisibleLOS (both overloads)
IsVisibleLOSTile(tp, s, d, caller) == ~Has(GetBlockedInLineTile(tp, s, d, FALSE, caller), SIDEWALL)
IsVisibleLOS(tp, s, d, caller) == ~Has(GetBlockedInLine(tp, s, d, FALSE, caller), SIDEWALL)

\* PathMapFlags mask = PASSABLE | (actorsAreBlocking ? UNMARKED : ACTOR)
WalkMask(actorsAreBlocking) == Or8(PASSABLE, IF actorsAreBlocking THEN UNMARKED ELSE ACTOR)

\* Map::IsWalkableTo (both overloads)
IsWalkableToTile(tp, s, d, actorsAreBlocking, caller) ==
    Has(GetBlockedInLineTile(tp, s, d, TRUE, caller), WalkMask(actorsAreBlocking))
IsWalkableTo(tp, s, d, actorsAreBlocking, caller) ==
    Has(GetBlockedInLine(tp, s, d, TRUE, caller), WalkMask(actorsAreBlocking))

(***************************************************************************)
(* Actors on the search map.  An actor is a record                         *)
(*   [SMPos, Pos, circleSize, pc, dead, sched, blocks];                    *)
(* actors is the map's vector of them.                                     *)
(***************************************************************************)
MAX_CIRCLE_SIZE == 8

MkActor(smp, csize, pc, dead, sched, blocks) ==
    [SMPos |-> smp, Pos |-> Pt(smp.x * TileW + 8, smp.y * TileH + 6), circleSize |-> csize,
     pc |-> pc, dead |-> dead, sched |-> sched, blocks |-> blocks]

\* WithinRange(actor, p, radius): the distance, a search-map cell counting as
\* one unit on either axis, is at most radius
WithinRange(actor, p, radius) ==
    LET dx == (actor.Pos.x - p.x) * TileH
        dy == (actor.Pos.y - p.y) * TileW
    IN dx * dx + dy * dy <= (radius * TileW * TileH) * (radius * TileW * TileH)

\* Actor::ValidTarget, for the flags the map passes
ValidTarget(acts, i, flags, see) ==
    /\ "GA_NO_SELF" \in flags => i # see
    /\ "GA_NO_DEAD" \in flags => ~acts[i].dead
    /\ "GA_NO_UNSCHEDULED" \in flags => acts[i].sched

BlocksSearchMap(actor) == actor.blocks

\* GetGroup: the side an actor is on, from its IE_EA
GetGroup(actor) ==
    IF actor.ea = "good" THEN "PC" ELSE IF actor.ea = "evil" THEN "Enemy" ELSE "Neutral"

\* Map::GetAllActorsInRadius: the indices of the neighbours, in vector order
GetAllActorsInRadius(tp, acts, p, flags, radius, see) ==
    SelectSeq([i \in 1 .. Len(acts) |-> i],
              LAMBDA i : /\ WithinRange(acts[i], p, radius)
                         /\ ValidTarget(acts, i, flags, see)
                         /\ "GA_NO_LOS" \notin flags
                               => IsVisibleLOS(tp, acts[i].Pos, p, NoCaller))

\* Map::BlockSearchMapFor
BlockSearchMapFor(tp, actor) ==
    PaintSearchMapCircle(tp, actor.SMPos, actor.circleSize, IF actor.pc THEN PC ELSE NPC)

\* for (const Actor* neighbour : nearActors) if (neighbour->BlocksSearchMap()) ...
RECURSIVE RestoreNeighbours(_, _, _)
RestoreNeighbours(tp, acts, near) ==
    IF near = <<>> THEN tp
    ELSE RestoreNeighbours(IF BlocksSearchMap(acts[Head(near)])
                           THEN BlockSearchMapFor(tp, acts[Head(near)])
                           ELSE tp,
                           acts, Tail(near))

ClearSearchMapForNoRestore(tp, acts, i) ==
    PaintSearchMapCircle(tp, acts[i].SMPos, acts[i].circleSize, UNMARKED)

\* Map::ClearSearchMapFor
ClearSearchMapFor(tp, acts, i) ==
    LET nearActors == GetAllActorsInRadius(tp, acts, acts[i].Pos,
                          {"GA_NO_SELF", "GA_NO_DEAD", "GA_NO_LOS", "GA_NO_UNSCHEDULED"},
                          MAX_CIRCLE_SIZE * 3, i)
        cleared == PaintSearchMapCircle(tp, acts[i].SMPos, acts[i].circleSize, UNMARKED)
    IN RestoreNeighbours(cleared, acts, nearActors)

(***************************************************************************)
(* Fog of war.  The two bitmaps are the sets of the fog points whose bit   *)
(* is set; bm is the pair [Explored, Visible]; e is the environment read   *)
(* by the map: the engine's cutscene mode and fog feature, the area type.  *)
(***************************************************************************)
MaxVisibility == 30
CELL_RATIO == 2
XCellCount == 1
YCellCount == 1
\* search-map cells per fog cell, on either axis
FogRatio == 2

FogMapSize(e) ==
    [w |-> XCellCount * CELL_RATIO + e.LargeFog, h |-> YCellCount * CELL_RATIO + e.LargeFog]

FogPoint(tile) == Pt(CDiv(tile.x, FogRatio), CDiv(tile.y, FogRatio))

FogPoints(e) == {Pt(x, y) : x \in 0 .. (FogMapSize(e).w - 1), y \in 0 .. (FogMapSize(e).h - 1)}

\* Explore::AddLOS: the offset of step i on the ray toward (destx, desty)
AddLOS(destx, desty, i, LargeFog) ==
    Pt(CDiv(destx * i + (MaxVisibility \div 2), MaxVisibility) + LargeFog,
       CDiv(desty * i + (MaxVisibility \div 2), MaxVisibility) + LargeFog)

\* Explore::Explore: the destinations of the rays, eight to a perimeter step
RayEnds ==
    LET st == MidpointCircle(MaxVisibility)
    IN UNION {{Pt(st[k].x, st[k].y), Pt(-st[k].x, st[k].y), Pt(-st[k].x, -st[k].y),
               Pt(st[k].x, -st[k].y), Pt(st[k].y, st[k].x), Pt(-st[k].y, st[k].x),
               Pt(-st[k].y, -st[k].x), Pt(st[k].y, -st[k].x)} : k \in DOMAIN st}

\* VisibilityMasks[0 .. range-1][p] for every slot p: rays that agree on their
\* first range steps are one ray here, as a sweep marks the same points for both
MasksUpTo(range, LargeFog) ==
    {[i \in 1 .. range |-> AddLOS(d.x, d.y, i - 1, LargeFog)] : d \in RayEnds}

\* the masks of the short ranges, computed once
SmallFogMasks ==
    << MasksUpTo(1, 0), MasksUpTo(2, 0), MasksUpTo(3, 0), MasksUpTo(4, 0), MasksUpTo(5, 0) >>
LargeFogMasks ==
    << MasksUpTo(1, 1), MasksUpTo(2, 1), MasksUpTo(3, 1), MasksUpTo(4, 1), MasksUpTo(5, 1) >>

VisibilityMasks(range, LargeFog) ==
    IF range \in DOMAIN SmallFogMasks
    THEN (IF LargeFog = 0 THEN SmallFogMasks[range] ELSE LargeFogMasks[range])
    ELSE MasksUpTo(range, LargeFog)

FillExplored(e, bm, explored) ==
    [bm EXCEPT !.Explored = IF explored THEN FogPoints(e) ELSE {}]

ExploreTile(e, bm, fogP, fogOnly) ==
    IF ~PointInside(FogMapSize(e), fogP)
    THEN bm
    ELSE [Explored |-> bm.Explored \cup {fogP},
          Visible |-> IF fogOnly THEN bm.Visible ELSE bm.Visible \cup {fogP}]

TileAt(pos, offset) == Pt(pos.x + offset.x, pos.y + offset.y)

LookNoTolerance(st, type, e) ==
    IF st.block THEN st
    ELSE IF Has(type, NO_SEE) THEN [st EXCEPT !.block = TRUE]
    ELSE IF Has(type, SIDEWALL) THEN [st EXCEPT !.block = TRUE]
    ELSE IF Has(type, DOOR_IMPASSABLE) /\ e.outdoor /\ ~e.city THEN [st EXCEPT !.fogOnly = TRUE]
    ELSE st

LookAnyArea(st, type, e) ==
    IF st.block THEN st
    ELSE IF Has(type, NO_SEE) THEN [st EXCEPT !.block = TRUE]
    ELSE IF Has(type, SIDEWALL) THEN [st EXCEPT !.sidewall = TRUE]
    ELSE IF st.sidewall THEN [st EXCEPT !.block = TRUE]
    ELSE IF Has(type, DOOR_IMPASSABLE) THEN [st EXCEPT !.fogOnly = TRUE]
    ELSE st

\* if (!block) { ... }: st is [Pass, block, sidewall, fogOnly], type the
\* block status of the tile
Look(st, type, e) ==
    IF st.block THEN st
    ELSE IF Has(type, NO_SEE) THEN [st EXCEPT !.block = TRUE]
    ELSE IF Has(type, SIDEWALL) THEN [st EXCEPT !.sidewall = TRUE]
    ELSE IF st.sidewall THEN [st EXCEPT !.block = TRUE]
    ELSE IF Has(type, DOOR_IMPASSABLE) /\ e.outdoor /\ ~e.city THEN [st EXCEPT !.fogOnly = TRUE]
    ELSE st

\* if (block) Pass--;
CountDown(st) == IF st.block THEN [st EXCEPT !.Pass = @ - 1] ELSE st

\* the loop over i with line of sight: the ExploreTile calls made from step i on
RECURSIVE RayCalls(_, _, _, _, _, _)
RECURSIVE RayStep(_, _, _, _, _, _)
RayCalls(tp, e, pos, ray, i, st) ==
    IF i > Len(ray) THEN {}
    ELSE RayStep(tp, e, pos, ray, i,
                 CountDown(Look(st, GetBlockedTile(tp, TileAt(pos, ray[i])), e)))

\* if (block && !Pass) break; ExploreTile(fogTile, fogOnly);
RayStep(tp, e, pos, ray, i, st) ==
    IF st.block /\ st.Pass = 0
    THEN {}
    ELSE {[fogP |-> FogPoint(TileAt(pos, ray[i])), fogOnly |-> st.fogOnly]}
            \cup RayCalls(tp, e, pos, ray, i + 1, st)

\* the same loop, keeping the step of each ExploreTile call: the steps i of
\* the ray at which ExploreTile is called, with the fogOnly passed
RECURSIVE RayMarks(_, _, _, _, _, _)
RayMarksFrom(tp, e, pos, ray, i, st) ==
    IF st.block /\ st.Pass = 0
    THEN {}
    ELSE {[i |-> i, fogOnly |-> st.fogOnly]} \cup RayMarks(tp, e, pos, ray, i + 1, st)
RayMarks(tp, e, pos, ray, i, st) ==
    IF i > Len(ray) THEN {}
    ELSE RayMarksFrom(tp, e, pos, ray, i,
                      CountDown(Look(st, GetBlockedTile(tp, TileAt(pos, ray[i])), e)))

\* if (range > Explore::MaxVisibility) range = Explore::MaxVisibility;
ChunkRange(range) == IF range > MaxVisibility THEN MaxVisibility ELSE range

\* the ExploreTile calls of ExploreMapChunk
ChunkCalls(tp, e, pos, range, los) ==
    IF los = 0
    THEN {[fogP |-> FogPoint(TileAt(pos, ray[i])), fogOnly |-> FALSE] :
             ray \in VisibilityMasks(ChunkRange(range), e.LargeFog), i \in 1 .. ChunkRange(range)}
    ELSE UNION {RayCalls(tp, e, pos, ray, 1,
                         [Pass |-> 2, block |-> FALSE, sidewall |-> FALSE, fogOnly |-> FALSE]) :
                   ray \in VisibilityMasks(ChunkRange(range), e.LargeFog)}

\* ExploreTile only sets bits, and a sweep reads none: the calls of a sweep
\* leave the bits each of them sets, in whatever order they are made
Sweep(e, bm, calls) ==
    LET None == [Explored |-> {}, Visible |-> {}]
    IN [Explored |-> bm.Explored \cup
                        UNION {ExploreTile(e, None, c.fogP, c.fogOnly).Explored : c \in calls},
        Visible |-> bm.Visible \cup
                        UNION {ExploreTile(e, None, c.fogP, c.fogOnly).Visible : c \in calls}]

ExploreMapChunk(tp, e, bm, pos, range, los) == Sweep(e, bm, ChunkCalls(tp, e, pos, range, los))

MkExplorer(smp, explore, cantsee, blind, visualRange, animCircle) ==
    [SMPos |-> smp, explore |-> explore, cantsee |-> cantsee, blind |-> blind,
     visualRange |-> visualRange, animCircle |-> animCircle]

FogCallsNoCircle(tp, e, acts) ==
    UNION {LET actor == acts[k]
               vis2 == IF actor.blind \/ actor.visualRange < 2 THEN 2 ELSE actor.visualRange
           IN IF ~actor.explore \/ actor.cantsee
              THEN {}
              ELSE ChunkCalls(tp, e, actor.SMPos, vis2, 1) :
           k \in DOMAIN acts}

\* the ExploreTile calls of the actors' sweeps in UpdateFog
FogCalls(tp, e, acts) ==
    UNION {LET actor == acts[k]
               vis2 == IF actor.blind \/ actor.visualRange < 2 THEN 2 ELSE actor.visualRange
           IN IF ~actor.explore \/ actor.cantsee
              THEN {}
              ELSE ChunkCalls(tp, e, actor.SMPos, vis2 + actor.animCircle, 1) :
           k \in DOMAIN acts}

UpdateFogKeepsVisible(e, bm, calls) == Sweep(e, bm, calls)

UpdateFogResetsExplored(e, bm, calls) == Sweep(e, [Explored |-> {}, Visible |-> {}], calls)

\* Map::UpdateFog, calls being the ExploreTile calls of its loop over the actors
UpdateFog(e, bm, calls) ==
    Sweep(e, IF ~e.cutscene THEN [bm EXCEPT !.Visible = {}] ELSE bm, calls)

(***************************************************************************)
(* Wall groups.  A region is [x, y, w, h]; a wall polygon is a record      *)
(* [BBox, disabled, behind], behind being the reference points its         *)
(* PointBehind test answers true for; tm is the tile map [XCellCount,      *)
(* YCellCount]; groups is wallGroups, a sequence of sequences of wall ids. *)
(***************************************************************************)
groupHeight == 480
groupWidth == 640
WallXCells == 11
WallYCells == 8
WallMap == [XCellCount |-> WallXCells, YCellCount |-> WallYCells]

MkRegion(x, y, w, h) == [x |-> x, y |-> y, w |-> w, h |-> h]

IntersectsRegion(r, rgn) ==
    /\ ~(r.x >= rgn.x + rgn.w)
    /\ ~(r.x + r.w <= rgn.x)
    /\ ~(r.y >= rgn.y + rgn.h)
    /\ ~(r.y + r.h <= rgn.y)

\* (2^32 + t) / b for t < 0, in 32-bit unsigned arithmetic: 2^32 = 4 * 2^30
WrappedDiv(t, b) ==
    4 * (1073741824 \div b) + ((4 * (1073741824 % b) + t) \div b)

\* CeilDiv<uint32_t>(a, b) = (a + b - 1) / b, a converted from int
CeilDivU32(a, b) ==
    IF a + b - 1 >= 0 THEN (a + b - 1) \div b ELSE WrappedDiv(a + b - 1, b)

\* if (r.x < 0) { r.w += r.x; r.x = 0; } and the same for y
ClipRegion(r) ==
    MkRegion(IF r.x < 0 THEN 0 ELSE r.x, IF r.y < 0 THEN 0 ELSE r.y,
             IF r.x < 0 THEN r.w + r.x ELSE r.w, IF r.y < 0 THEN r.h + r.y ELSE r.h)

GroupPitch(tm) == CeilDivU32(tm.XCellCount * 64, groupWidth)
GroupRows(tm) == CeilDivU32(tm.YCellCount * 64, groupHeight)

\* the part of the map a group covers
GroupRegion(tm, g) ==
    MkRegion((g % GroupPitch(tm)) * groupWidth, (g \div GroupPitch(tm)) * groupHeight,
             groupWidth, groupHeight)

\* wallGroups as the loader builds it: group g refers to every wall whose
\* bounding box intersects the part of the map it covers
WallGroups(tm, ws) ==
    [k \in 1 .. (GroupPitch(tm) * GroupRows(tm)) |->
        SelectSeq([i \in 1 .. Len(ws) |-> i],
                  LAMBDA i : IntersectsRegion(GroupRegion(tm, k - 1), ws[i].BBox))]

\* the indices y * pitch + x of the groups the two loops visit, in their order;
\* r is the clipped region
GroupsVisited(tm, r) ==
    LET ymin == r.y \div groupHeight
        ymax == Min(GroupRows(tm), CeilDivU32(r.y + r.h, groupHeight))
        xmin == r.x \div groupWidth
        xmax == Min(GroupPitch(tm), CeilDivU32(r.x + r.w, groupWidth))
        nx == IF xmax > xmin THEN xmax - xmin ELSE 0
        ny == IF ymax > ymin THEN ymax - ymin ELSE 0
    IN [k \in 1 .. (nx * ny) |->
           (ymin + ((k - 1) \div nx)) * GroupPitch(tm) + xmin + ((k - 1) % nx)]

NoLoc == [none |-> TRUE]
PointBehind(wp, loc) == loc \in wp.behind

WallMatchesKeepsDisabled(wp, r, includeDisabled) == IntersectsRegion(r, wp.BBox)

\* the two tests a wall of a visited group passes to be pushed
WallMatches(wp, r, includeDisabled) ==
    /\ ~(wp.disabled /\ ~includeDisabled)
    /\ IntersectsRegion(r, wp.BBox)

WallsPushedOnce(tm, groups, ws, r, includeDisabled) ==
    SelectSeq([i \in 1 .. Len(ws) |-> i],
              LAMBDA i : /\ WallMatches(ws[i], r, includeDisabled)
                         /\ \E k \in DOMAIN GroupsVisited(tm, r) :
                               i \in {groups[GroupsVisited(tm, r)[k] + 1][j] :
                                         j \in DOMAIN groups[GroupsVisited(tm, r)[k] + 1]})

\* the walls pushed, in the order of the loops: a wall is pushed once for
\* every visited group that refers to it
WallsPushed(tm, groups, ws, r, includeDisabled) ==
    Flatten([k \in DOMAIN GroupsVisited(tm, r) |->
                SelectSeq(groups[GroupsVisited(tm, r)[k] + 1],
                          LAMBDA i : WallMatches(ws[i], r, includeDisabled))])

InFront(ws, i, loc) == loc = NoLoc \/ PointBehind(ws[i], loc)

WallsIntersectingRegion(tm, groups, ws, r, includeDisabled, loc) ==
    LET pushed == WallsPushed(tm, groups, ws, ClipRegion(r), includeDisabled)
    IN [first |-> SelectSeq(pushed, LAMBDA i : InFront(ws, i, loc)),
        second |-> SelectSeq(pushed, LAMBDA i : ~InFront(ws, i, loc))]

(***************************************************************************)
(* Initial values shared by the specifications.                            *)
(***************************************************************************)
Cells == 0 .. (MapW * MapH - 1)

\* A freshly loaded property image: every cell base, but for one cell.
Store(base, at, special) ==
    [propPtr |-> [i \in Cells |-> IF i = at THEN special ELSE base], wild |-> FALSE]

\* a property image whose cells 1 and 2 hold c1 and c2
Store2(base, c1, c2) ==
    [propPtr |-> [i \in Cells |-> IF i = 1 THEN c1 ELSE IF i = 2 THEN c2 ELSE base],
     wild |-> FALSE]

NoActors == << >>
\* no walls, no drawable objects, an empty stencil cache
NoDraw ==
    /\ walls = << >> /\ objects = << >> /\ objectStencils = << >>
    /\ stencilViewport = [x |-> 0, y |-> 0, w |-> 0, h |-> 0] /\ stencilWalls = << >>
\* the queues of a map no tick has run on
NoQueues ==
    /\ queue = [p \in {"RunScripts", "Display", "Ignore"} |-> << >>]
    /\ hostilesVisible = FALSE
NoEnv == [cutscene |-> FALSE, LargeFog |-> 0, outdoor |-> FALSE, city |-> FALSE]
Idle == [op |-> "init"]

(***************************************************************************)
(* Specification SpecTile: the TileProps operations on one store.          *)
(***************************************************************************)
\* two cells of the store, and points off each of its four sides
TilePoints == {Pt(0, 0), Pt(MapW - 1, MapH - 1), Pt(-1, 1), Pt(0, -1), Pt(MapW, 0), Pt(0, MapH)}
TileVals == {165}
TileSizes == {0, 2, 9}
TilePaintVals == {UNMARKED, PC}
\* centres of the footprints: inside, on the rim, and outside the store
TileCentres == {Pt(0, 0), Pt(MapW - 1, MapH - 1), Pt(-1, 1), Pt(1, MapH), Pt(MapW + 8, 0)}

InitTile ==
    /\ \E s \in {IMPASSABLE, PASSABLE, Or8(PASSABLE, DOOR_IMPASSABLE)} :
          tileProps = Store(MkCell(PASSABLE, 3, 128, 7), 0, MkCell(s, 17, 64, 200))
    /\ actors = NoActors
    /\ ExploredBitmap = {}
    /\ VisibleBitmap = {}
    /\ env = NoEnv
    /\ last = Idle
    /\ nops = 0
    /\ NoDraw
    /\ NoQueues

TileFrame == UNCHANGED <<actors, ExploredBitmap, VisibleBitmap, env, DrawVars, QueueVars>>

DoSetTileProp ==
    \E p \in TilePoints, prop \in Property, val \in TileVals :
        /\ nops < MaxTileOps
        /\ tileProps' = SetTileProp(tileProps, p, prop, val)
        /\ last' = [op |-> "SetTileProp", p |-> p, prop |-> prop, val |-> val]
        /\ nops' = nops + 1
        /\ TileFrame

DoQueryTileProp ==
    \E p \in TilePoints, prop \in Property :
        /\ nops < MaxTileOps
        /\ last' = [op |-> "QueryTileProp", p |-> p, prop |-> prop,
                    ret |-> QueryTileProp(tileProps, p, prop)]
        /\ nops' = nops + 1
        /\ UNCHANGED tileProps
        /\ TileFrame

DoPaintSearchMap ==
    \E p \in TilePoints, value \in TilePaintVals :
        /\ nops < MaxTileOps
        /\ tileProps' = PaintSearchMap(tileProps, p, value)
        /\ last' = [op |-> "PaintSearchMap", p |-> p, val |-> value]
        /\ nops' = nops + 1
        /\ TileFrame

DoPaintSearchMapCircle ==
    \E p \in TileCentres, blocksize \in TileSizes, value \in TilePaintVals :
        /\ nops < MaxTileOps
        /\ tileProps' = PaintSearchMapCircle(tileProps, p, blocksize, value)
        /\ last' = [op |-> "PaintSearchMapCircle", p |-> p, blocksize |-> blocksize, val |-> value]
        /\ nops' = nops + 1
        /\ TileFrame

NextTile == DoSetTileProp \/ DoQueryTileProp \/ DoPaintSearchMap \/ DoPaintSearchMapCircle

SpecTile == InitTile /\ [][NextTile]_vars

(***************************************************************************)
(* Specification SpecFoot: actors blocking and clearing their footprints.  *)
(***************************************************************************)
\* where the actors stand: cells of the store, and a spot far to its right
FarSpot == Pt(MapW + 3, 1)
ActorIds == 1 .. 3

InitFoot ==
    /\ \E s \in {IMPASSABLE, Or8(PASSABLE, DOOR_IMPASSABLE)} :
          tileProps = Store(MkCell(PASSABLE, 3, 128, 7), MapW * MapH - 1, MkCell(s, 17, 64, 200))
    /\ \E p1 \in {Pt(0, 0), Pt(-1, 1)}, s1 \in {1, 3}, pc1 \in BOOLEAN,
          p2 \in {Pt(1, 1), FarSpot}, pc2 \in BOOLEAN,
          st2 \in {"ok", "dead", "unscheduled", "nonblocking"},
          p3 \in {Pt(2, 0), FarSpot} :
          actors = << MkActor(p1, s1, pc1, FALSE, TRUE, TRUE),
                      MkActor(p2, 2, pc2, st2 = "dead", st2 # "unscheduled", st2 # "nonblocking"),
                      MkActor(p3, 2, TRUE, FALSE, TRUE, TRUE) >>
    /\ ExploredBitmap = {}
    /\ VisibleBitmap = {}
    /\ env = NoEnv
    /\ last = Idle
    /\ nops = 0
    /\ NoDraw
    /\ NoQueues

FootFrame == UNCHANGED <<actors, ExploredBitmap, VisibleBitmap, env, nops, DrawVars, QueueVars>>

\* last remembers the store before the operation; a clear that directly
\* follows the block of the same actor also remembers the store before that
\* block
DoBlockSearchMapFor ==
    \E i \in ActorIds :
        /\ tileProps' = BlockSearchMapFor(tileProps, actors[i])
        /\ last' = [op |-> "BlockSearchMapFor", a |-> i, before |-> tileProps]
        /\ FootFrame

DoClearSearchMapFor ==
    \E i \in ActorIds :
        /\ tileProps' = ClearSearchMapFor(tileProps, actors, i)
        /\ last' = IF last.op = "BlockSearchMapFor" /\ last.a = i
                   THEN [op |-> "ClearSearchMapFor", a |-> i, paired |-> TRUE,
                         before |-> last.before, prev |-> tileProps]
                   ELSE [op |-> "ClearSearchMapFor", a |-> i, paired |-> FALSE, prev |-> tileProps]
        /\ FootFrame

NextFoot == DoBlockSearchMapFor \/ DoClearSearchMapFor

SpecFoot == InitFoot /\ [][NextFoot]_vars

(***************************************************************************)
(* Specification SpecQuery: one passability query on a loaded map.  The    *)
(* queries are const: they leave the store as it is, so a query after      *)
(* other queries returns what it returns on the loaded map.                *)
(***************************************************************************)
QBase == {PASSABLE, Or8(PASSABLE, NPC)}
QVals == {IMPASSABLE, PASSABLE, TRAVEL, SIDEWALL, Or8(PASSABLE, NO_SEE), Or8(PASSABLE, SIDEWALL),
          Or8(PASSABLE, DOOR_OPAQUE), Or8(PASSABLE, DOOR_IMPASSABLE), Or8(PASSABLE, PC)}
QPoints == {Pt(0, 0), Pt(1, 0), Pt(MapW - 1, MapH - 1), Pt(-1, 0)}
QSizes == {-1, 1, 2, 3, -2}
QCallers == {NoCaller, [circleSize |-> 3, stride |-> 2]}
\* line ends, in cells and in pixels (the centres of cells)
QTileEnds == {Pt(0, 0), Pt(MapW - 1, 0), Pt(MapW - 1, MapH - 1), Pt(MapW + 1, 0)}
QNavEnds == {Pt(TileW * (MapW - 1) + 8, 6), Pt(8, TileH * (MapH - 1) + 6)}

InitQuery ==
    /\ \E base \in QBase, at \in Cells, v \in QVals :
          tileProps = Store(MkCell(base, 3, 128, 7), at, MkCell(v, 17, 64, 200))
    /\ actors = NoActors
    /\ ExploredBitmap = {}
    /\ VisibleBitmap = {}
    /\ env = NoEnv
    /\ last = Idle
    /\ nops = 0
    /\ NoDraw
    /\ NoQueues

QueryFrame ==
    UNCHANGED <<tileProps, actors, ExploredBitmap, VisibleBitmap, env, nops, DrawVars, QueueVars>>

DoGetBlockedTile ==
    \E p \in QPoints, sz \in QSizes :
        /\ last = Idle
        /\ last' = [op |-> "GetBlockedTile", p |-> p, size |-> sz,
                    ret |-> GetBlockedTileSized(tileProps, p, sz)]
        /\ QueryFrame

DoGetBlockedInRadiusTile ==
    \E p \in QPoints, sz \in {1, 3}, stop \in BOOLEAN :
        /\ last = Idle
        /\ last' = [op |-> "GetBlockedInRadiusTile", p |-> p, size |-> sz, stop |-> stop,
                    ret |-> GetBlockedInRadiusTile(tileProps, p, sz, stop)]
        /\ QueryFrame

DoGetBlockedInLineTile ==
    \E d \in QTileEnds, stop \in BOOLEAN, caller \in QCallers :
        /\ last = Idle
        /\ last' = [op |-> "GetBlockedInLineTile", s |-> Pt(0, 0), d |-> d, stop |-> stop,
                    caller |-> caller,
                    ret |-> GetBlockedInLineTile(tileProps, Pt(0, 0), d, stop, caller)]
        /\ QueryFrame

DoGetBlockedInLine ==
    \E d \in QNavEnds, stop \in BOOLEAN, caller \in QCallers :
        /\ last = Idle
        /\ last' = [op |-> "GetBlockedInLine", s |-> Pt(8, 6), d |-> d, stop |-> stop,
                    caller |-> caller,
                    ret |-> GetBlockedInLine(tileProps, Pt(8, 6), d, stop, caller)]
        /\ QueryFrame

NextQuery ==
    DoGetBlockedTile \/ DoGetBlockedInRadiusTile \/ DoGetBlockedInLineTile \/ DoGetBlockedInLine

SpecQuery == InitQuery /\ [][NextQuery]_vars

(***************************************************************************)
(* Specification SpecFog: exploring, the fog update of a tick, the resets  *)
(* of the explored bitmap, and the engine entering or leaving a cutscene.  *)
(***************************************************************************)
FogSpots == {Pt(0, 0), Pt(-1, 0), Pt(XCellCount * CELL_RATIO + 1, 0)}
ChunkSpots == {Pt(MapW, MapH)}
ChunkRanges == {1, 3}
Bitmaps == [Explored |-> ExploredBitmap, Visible |-> VisibleBitmap]
\* what stands in cell (1, 0), and the type of the area
FogScenes == { <<PASSABLE, "indoor">>, <<SIDEWALL, "indoor">>, <<Or8(PASSABLE, NO_SEE), "city">>,
               <<Or8(PASSABLE, DOOR_IMPASSABLE), "outdoor">>,
               <<Or8(PASSABLE, DOOR_IMPASSABLE), "city">> }

InitFog ==
    /\ \E sc \in FogScenes, lf \in {0, 1} :
          /\ tileProps = Store(MkCell(PASSABLE, 3, 128, 7), 1, MkCell(sc[1], 17, 64, 200))
          /\ env = [cutscene |-> FALSE, LargeFog |-> lf,
                    outdoor |-> sc[2] # "indoor", city |-> sc[2] = "city"]
    /\ \E seer \in BOOLEAN :
          actors = << MkExplorer(Pt(0, 0), TRUE, FALSE, FALSE, IF seer THEN 1 ELSE 2, 0),
                      MkExplorer(Pt(MapW - 1, MapH - 1), seer, ~seer, TRUE, 4, 1) >>
    /\ ExploredBitmap = {}
    /\ VisibleBitmap = {}
    /\ last = Idle
    /\ nops = 0
    /\ NoDraw
    /\ NoQueues

FogFrame == UNCHANGED <<tileProps, actors, nops, DrawVars, QueueVars>>

DoExploreTile ==
    \E fogP \in FogSpots, fogOnly \in BOOLEAN :
        LET bm == ExploreTile(env, Bitmaps, fogP, fogOnly)
        IN /\ ExploredBitmap' = bm.Explored
           /\ VisibleBitmap' = bm.Visible
           /\ last' = [op |-> "ExploreTile"]
           /\ UNCHANGED env
           /\ FogFrame

DoExploreMapChunk ==
    \E pos \in ChunkSpots, range \in ChunkRanges, los \in {0, 1} :
        LET bm == ExploreMapChunk(tileProps, env, Bitmaps, pos, range, los)
        IN /\ ExploredBitmap' = bm.Explored
           /\ VisibleBitmap' = bm.Visible
           /\ last' = [op |-> "ExploreMapChunk"]
           /\ UNCHANGED env
           /\ FogFrame

\* last remembers the fog points the sweep of the update passed to ExploreTile
\* (swept), and those it passed with fogOnly = false (marked)
DoUpdateFog ==
    LET calls == FogCalls(tileProps, env, actors)
    IN /\ ExploredBitmap' = UpdateFog(env, Bitmaps, calls).Explored
       /\ VisibleBitmap' = UpdateFog(env, Bitmaps, calls).Visible
       /\ last' = [op |-> "UpdateFog", cutscene |-> env.cutscene,
                   swept |-> {c.fogP : c \in calls},
                   marked |-> {c.fogP : c \in {k \in calls : ~k.fogOnly}}]
       /\ UNCHANGED env
       /\ FogFrame

DoFillExplored ==
    \E explored \in BOOLEAN :
        LET bm == FillExplored(env, Bitmaps, explored)
        IN /\ ExploredBitmap' = bm.Explored
           /\ VisibleBitmap' = bm.Visible
           /\ last' = [op |-> "FillExplored"]
           /\ UNCHANGED env
           /\ FogFrame

\* the engine enters or leaves cutscene mode
DoSetCutSceneMode ==
    /\ env' = [env EXCEPT !.cutscene = ~@]
    /\ last' = [op |-> "SetCutSceneMode"]
    /\ UNCHANGED <<ExploredBitmap, VisibleBitmap>>
    /\ FogFrame

NextFog ==
    DoExploreTile \/ DoExploreMapChunk \/ DoUpdateFog \/ DoFillExplored \/ DoSetCutSceneMode

SpecFog == InitFog /\ [][NextFog]_vars

(***************************************************************************)
(* Specification SpecSweep: the fog updates of successive ticks on an open *)
(* map with one explorer, whose visual range changes between ticks.        *)
(***************************************************************************)
SweepSpots == {Pt(0, 0), Pt(MapW - 1, MapH - 1)}
SweepRanges == {1, 2, 4}

InitSweep ==
    /\ tileProps = Store(MkCell(PASSABLE, 3, 128, 7), 0, MkCell(PASSABLE, 3, 128, 7))
    /\ \E lf \in {0, 1} :
          env = [cutscene |-> FALSE, LargeFog |-> lf, outdoor |-> FALSE, city |-> FALSE]
    /\ \E pos \in SweepSpots, animCircle \in {0, 1} :
          actors = << MkExplorer(pos, TRUE, FALSE, FALSE, 4, animCircle) >>
    /\ ExploredBitmap = {}
    /\ VisibleBitmap = {}
    /\ last = Idle
    /\ nops = 0
    /\ NoDraw
    /\ NoQueues

\* last remembers the sweep of the update, as DoUpdateFog does, and the
\* Explored bitmap before the update
DoUpdateFogTick ==
    LET calls == FogCalls(tileProps, env, actors)
    IN /\ ExploredBitmap' = UpdateFog(env, Bitmaps, calls).Explored
       /\ VisibleBitmap' = UpdateFog(env, Bitmaps, calls).Visible
       /\ last' = [op |-> "UpdateFog", cutscene |-> env.cutscene,
                   swept |-> {c.fogP : c \in calls},
                   marked |-> {c.fogP : c \in {k \in calls : ~k.fogOnly}},
                   before |-> ExploredBitmap]
       /\ UNCHANGED env
       /\ FogFrame

\* the explorer's visual range stat changes between ticks
DoSetVisualRange ==
    \E v \in SweepRanges :
        /\ actors' = [actors EXCEPT ![1].visualRange = v]
        /\ last' = [op |-> "SetVisualRange"]
        /\ UNCHANGED <<tileProps, ExploredBitmap, VisibleBitmap, env, nops, DrawVars, QueueVars>>

NextSweep == DoUpdateFogTick \/ DoSetVisualRange \/ DoSetCutSceneMode

SpecSweep == InitSweep /\ [][NextSweep]_vars

(***************************************************************************)
(* Specification SpecRadii: one footprint stamp or one radius query, of    *)
(* any size, centred on the first row at or to the left of the map, whose  *)
(* first row tells how far the disc reaches.                               *)
(***************************************************************************)
MaxSize == 10
MaxReach == 8
RadiiSizes == 0 .. MaxSize
RadiiCentres == {Pt(-k, 0) : k \in 0 .. MaxReach}

InitRadii ==
    /\ \E at \in 0 .. (MapW - 1) :
          tileProps = Store(MkCell(PASSABLE, 3, 128, 7), at, MkCell(Or8(PASSABLE, NO_SEE), 17, 64, 200))
    /\ actors = NoActors
    /\ ExploredBitmap = {}
    /\ VisibleBitmap = {}
    /\ env = NoEnv
    /\ last = Idle
    /\ nops = 0
    /\ NoDraw
    /\ NoQueues

DoStampFootprint ==
    \E p \in RadiiCentres, blocksize \in RadiiSizes :
        /\ last = Idle
        /\ tileProps' = PaintSearchMapCircle(tileProps, p, blocksize, PC)
        /\ last' = [op |-> "PaintSearchMap", p |-> p, size |-> blocksize]
        /\ UNCHANGED nops
        /\ TileFrame

DoScanFootprint ==
    \E p \in RadiiCentres, sz \in RadiiSizes :
        /\ last = Idle
        /\ last' = [op |-> "GetBlockedInRadiusTile", p |-> p, size |-> sz,
                    ret |-> GetBlockedInRadiusTile(tileProps, p, sz, FALSE)]
        /\ QueryFrame

NextRadii == DoStampFootprint \/ DoScanFootprint

SpecRadii == InitRadii /\ [][NextRadii]_vars

(***************************************************************************)
(* Specification SpecLine: one sight or walkability test along a line over *)
(* a map whose first row holds walls, doors and actors.                    *)
(***************************************************************************)
LineVals == {PASSABLE, IMPASSABLE, Or8(PASSABLE, SIDEWALL), Or8(PASSABLE, DOOR_OPAQUE),
             Or8(PASSABLE, DOOR_IMPASSABLE), Or8(PASSABLE, PC), Or8(PASSABLE, NPC)}
LineStarts == {Pt(0, 0), Pt(MapW - 1, 0)}
LineEnds == {Pt(0, 0), Pt(1, 0), Pt(MapW - 1, 0), Pt(MapW - 1, MapH - 1), Pt(MapW, 0)}
LineCallers == {NoCaller, [circleSize |-> 2, stride |-> 1], [circleSize |-> 3, stride |-> 2]}
\* the centre of a cell, in pixels
CellCentre(c) == Pt(TileW * c.x + TileW \div 2, TileH * c.y + TileH \div 2)

InitLine ==
    /\ \E v1 \in LineVals, v2 \in LineVals :
          tileProps = Store2(MkCell(PASSABLE, 3, 128, 7), MkCell(v1, 17, 64, 200),
                             MkCell(v2, 17, 64, 200))
    /\ actors = NoActors
    /\ ExploredBitmap = {}
    /\ VisibleBitmap = {}
    /\ env = NoEnv
    /\ last = Idle
    /\ nops = 0
    /\ NoDraw
    /\ NoQueues

DoIsVisibleLOSTile ==
    \E s \in LineStarts, d \in LineEnds, caller \in LineCallers :
        /\ last = Idle
        /\ last' = [op |-> "IsVisibleLOS", tile |-> TRUE, s |-> s, d |-> d, caller |-> caller,
                    ret |-> IsVisibleLOSTile(tileProps, s, d, caller)]
        /\ QueryFrame

DoIsVisibleLOS ==
    \E s \in LineStarts, d \in LineEnds, caller \in LineCallers :
        /\ last = Idle
        /\ last' = [op |-> "IsVisibleLOS", tile |-> FALSE, s |-> CellCentre(s), d |-> CellCentre(d),
                    caller |-> caller,
                    ret |-> IsVisibleLOS(tileProps, CellCentre(s), CellCentre(d), caller)]
        /\ QueryFrame

DoIsWalkableToTile ==
    \E s \in LineStarts, d \in LineEnds, caller \in LineCallers, actorsAreBlocking \in BOOLEAN :
        /\ last = Idle
        /\ last' = [op |-> "IsWalkableTo", tile |-> TRUE, s |-> s, d |-> d, caller |-> caller,
                    actorsAreBlocking |-> actorsAreBlocking,
                    ret |-> IsWalkableToTile(tileProps, s, d, actorsAreBlocking, caller)]
        /\ QueryFrame

DoIsWalkableTo ==
    \E s \in LineStarts, d \in LineEnds, caller \in LineCallers, actorsAreBlocking \in BOOLEAN :
        /\ last = Idle
        /\ last' = [op |-> "IsWalkableTo", tile |-> FALSE, s |-> CellCentre(s), d |-> CellCentre(d),
                    caller |-> caller, actorsAreBlocking |-> actorsAreBlocking,
                    ret |-> IsWalkableTo(tileProps, CellCentre(s), CellCentre(d),
                                         actorsAreBlocking, caller)]
        /\ QueryFrame

NextLine == DoIsVisibleLOSTile \/ DoIsVisibleLOS \/ DoIsWalkableToTile \/ DoIsWalkableTo

SpecLine == InitLine /\ [][NextLine]_vars

(***************************************************************************)
(* Map::GetRandomEnemySeen and specification SpecEnemy: one draw of an     *)
(* enemy in sight by an actor that has company, or has none.               *)
(***************************************************************************)
Null == [null |-> TRUE]
Crash == [crash |-> TRUE]
Victim(i) == [actor |-> i]
\* the largest index the model draws when the upper bound of the draw wraps
MaxIndex == 2

\* RAND<size_t>(0, n - 1): for n = 0 the upper bound wraps to the largest
\* size_t and the draw is any index from 0 up, of which the first few are kept
RandIndex(n) == IF n = 0 THEN 0 .. MaxIndex ELSE 0 .. (n - 1)

\* the victim is returned if it is on the other side
Verdict(type, acts, victim) ==
    IF type = "PC"
    THEN IF acts[victim].ea = "evil" THEN Victim(victim) ELSE Null
    ELSE IF acts[victim].ea = "good" THEN Victim(victim) ELSE Null

\* what reading neighbours[index] past the end of the vector may yield: any
\* pointer, whose use returns anything or faults
ReadOutside(acts) == {Null, Crash} \cup {Victim(i) : i \in DOMAIN acts}

\* the outcomes of the draw among the neighbours
DrawVictim(type, acts, neighbours) ==
    IF neighbours = << >>
    THEN {[early |-> FALSE, neighbours |-> neighbours, index |-> k, ret |-> r] :
             k \in RandIndex(0), r \in ReadOutside(acts)}
    ELSE {[early |-> FALSE, neighbours |-> neighbours, index |-> k,
           ret |-> Verdict(type, acts, neighbours[k + 1])] : k \in RandIndex(Len(neighbours))}

\* Map::GetRandomEnemySeen: its possible outcomes
GetRandomEnemySeen(tp, acts, origin) ==
    IF GetGroup(acts[origin]) = "Neutral"
    THEN {[early |-> TRUE, ret |-> Null]}
    ELSE DrawVictim(GetGroup(acts[origin]), acts,
                    GetAllActorsInRadius(tp, acts, acts[origin].Pos,
                                         {"GA_NO_HIDDEN", "GA_NO_DEAD", "GA_NO_UNSCHEDULED", "GA_NO_SELF"},
                                         acts[origin].visualRange, origin))

Sides == {"good", "neutral", "evil"}
Seer(smp, ea, dead) ==
    MkActor(smp, 2, ea = "good", dead, TRUE, TRUE) @@ [ea |-> ea, visualRange |-> MapW]

InitEnemy ==
    /\ \E v \in {PASSABLE, Or8(PASSABLE, SIDEWALL)} :
          tileProps = Store(MkCell(PASSABLE, 3, 128, 7), 1, MkCell(v, 17, 64, 200))
    /\ \E ea1 \in Sides, ea2 \in Sides, ea3 \in {"good", "evil"},
          p2 \in {Pt(1, 1), FarSpot}, p3 \in {Pt(MapW - 1, 0), FarSpot}, dead2 \in BOOLEAN :
          actors = << Seer(Pt(0, 0), ea1, FALSE), Seer(p2, ea2, dead2), Seer(p3, ea3, FALSE) >>
    /\ ExploredBitmap = {}
    /\ VisibleBitmap = {}
    /\ env = NoEnv
    /\ last = Idle
    /\ nops = 0
    /\ NoDraw
    /\ NoQueues

DoGetRandomEnemySeen ==
    \E origin \in DOMAIN actors :
    \E out \in GetRandomEnemySeen(tileProps, actors, origin) :
        /\ last = Idle
        /\ last' = [op |-> "GetRandomEnemySeen", origin |-> origin, out |-> out]
        /\ QueryFrame

NextEnemy == DoGetRandomEnemySeen

SpecEnemy == InitEnemy /\ [][NextEnemy]_vars

(***************************************************************************)
(* Specification SpecRay: one line-of-sight sweep from the corner of a map *)
(* whose first row holds walls, doors and cells that block sight.          *)
(***************************************************************************)
RayVals == {PASSABLE, IMPASSABLE, Or8(PASSABLE, NO_SEE), Or8(PASSABLE, SIDEWALL),
            Or8(PASSABLE, DOOR_OPAQUE), Or8(Or8(PASSABLE, NO_SEE), DOOR_OPAQUE),
            Or8(PASSABLE, DOOR_IMPASSABLE), Or8(Or8(PASSABLE, DOOR_IMPASSABLE), DOOR_OPAQUE)}
RayRanges == {3, 4}
AreaTypes == {"indoor", "outdoor", "city"}

InitRay ==
    /\ \E v1 \in RayVals, v2 \in RayVals :
          tileProps = Store2(MkCell(PASSABLE, 3, 128, 7), MkCell(v1, 17, 64, 200),
                             MkCell(v2, 17, 64, 200))
    /\ \E area \in AreaTypes, lf \in {0, 1} :
          env = [cutscene |-> FALSE, LargeFog |-> lf,
                 outdoor |-> area # "indoor", city |-> area = "city"]
    /\ actors = NoActors
    /\ ExploredBitmap = {}
    /\ VisibleBitmap = {}
    /\ last = Idle
    /\ nops = 0
    /\ NoDraw
    /\ NoQueues

\* what one ray of the sweep did: the tiles of its steps and its ExploreTile calls
RayOf(pos, ray) ==
    [tiles |-> [i \in DOMAIN ray |-> TileAt(pos, ray[i])],
     marks |-> RayMarks(tileProps, env, pos, ray, 1,
                        [Pass |-> 2, block |-> FALSE, sidewall |-> FALSE, fogOnly |-> FALSE])]

\* ExploreMapChunk with line of sight, from the point whose first step is cell (0, 0)
DoSweepChunk ==
    \E range \in RayRanges :
        /\ last = Idle
        /\ ExploredBitmap' = ExploreMapChunk(tileProps, env, Bitmaps,
                                             Pt(-env.LargeFog, -env.LargeFog), range, 1).Explored
        /\ VisibleBitmap' = ExploreMapChunk(tileProps, env, Bitmaps,
                                            Pt(-env.LargeFog, -env.LargeFog), range, 1).Visible
        /\ last' = [op |-> "ExploreMapChunk", range |-> range,
                    rays |-> {RayOf(Pt(-env.LargeFog, -env.LargeFog), ray) :
                                 ray \in VisibilityMasks(ChunkRange(range), env.LargeFog)}]
        /\ UNCHANGED env
        /\ FogFrame

NextRay == DoSweepChunk

SpecRay == InitRay /\ [][NextRay]_vars

(***************************************************************************)
(* Specification SpecWalls: one WallsIntersectingRegion query on a map     *)
(* with three walls, doors having disabled some of them.                   *)
(***************************************************************************)
\* reference points: positions of objects
LocA == Pt(640, 450)
LocB == Pt(30, 30)
MkWall(bbox, disabled, behind) == [BBox |-> bbox, disabled |-> disabled, behind |-> behind]
\* a wall across the four groups, a wall inside it, and a wall in the first group
WallBoxes == << MkRegion(600, 400, 100, 100), MkRegion(610, 410, 50, 50), MkRegion(10, 10, 50, 50) >>
WallLocs == {NoLoc, LocA, LocB}
\* the whole map; over its top left corner; left of a group border; left of
\* the map; over its bottom right corner; an empty region inside two walls
WallRegions ==
    { MkRegion(0, 0, WallXCells * 64, WallYCells * 64), MkRegion(-20, -20, 100, 100),
      MkRegion(590, 390, 20, 20), MkRegion(-100, 0, 50, 50),
      MkRegion(650, 450, 200, 200), MkRegion(620, 420, 0, 0) }

InitWalls ==
    /\ \E d1 \in BOOLEAN, d2 \in BOOLEAN, d3 \in BOOLEAN :
          walls = << MkWall(WallBoxes[1], d1, {LocA}), MkWall(WallBoxes[2], d2, {}),
                     MkWall(WallBoxes[3], d3, {LocA, LocB}) >>
    /\ objects = << >>
    /\ objectStencils = << >>
    /\ stencilViewport = MkRegion(0, 0, 0, 0)
    /\ stencilWalls = << >>
    /\ NoQueues
    /\ tileProps = Store(MkCell(PASSABLE, 3, 128, 7), 0, MkCell(PASSABLE, 3, 128, 7))
    /\ actors = NoActors
    /\ ExploredBitmap = {}
    /\ VisibleBitmap = {}
    /\ env = NoEnv
    /\ last = Idle
    /\ nops = 0

DoWallsIntersectingRegion ==
    \E r \in WallRegions, includeDisabled \in BOOLEAN, loc \in WallLocs :
        /\ last = Idle
        /\ last' = [op |-> "WallsIntersectingRegion", r |-> r,
                    includeDisabled |-> includeDisabled, loc |-> loc,
                    ret |-> WallsIntersectingRegion(WallMap, WallGroups(WallMap, walls), walls,
                                                    r, includeDisabled, loc)]
        /\ UNCHANGED <<tileProps, actors, ExploredBitmap, VisibleBitmap, env, nops,
                       DrawVars, QueueVars>>

NextWalls == DoWallsIntersectingRegion

SpecWalls == InitWalls /\ [][NextWalls]_vars

(***************************************************************************)
(* The stencil cache: the stencil DrawMap selects for each drawable object *)
(* and the operations that destroy drawable objects.                       *)
(***************************************************************************)
\* the stencil shared by the objects that need no stencil of their own
wallStencil == [shared |-> TRUE]
\* a stencil drawn for one object from the walls in front of it
CustomStencil(objectRgn, infront) == [shared |-> FALSE, rgn |-> objectRgn, walls |-> infront]
NoEntry == [none |-> TRUE]

\* Region::RectInside: r lies inside rgn
RectInside(rgn, r) ==
    /\ r.x >= rgn.x
    /\ r.x + r.w <= rgn.x + rgn.w
    /\ r.y >= rgn.y
    /\ r.y + r.h <= rgn.y + rgn.h
IsInvalidNever(r) == FALSE
\* Size::IsInvalid
IsInvalid(r) == r.w <= 0 \/ r.h <= 0

Erase(cache, o) == [k \in DOMAIN cache \ {o} |-> cache[k]]
Entry(cache, o) == IF o \in DOMAIN cache THEN cache[o] ELSE NoEntry
ReusableAny(cache, o, objectRgn) == o \in DOMAIN cache
\* the object has an entry and its stored region contains the draw region
Reusable(cache, o, objectRgn) == o \in DOMAIN cache /\ RectInside(cache[o].rgn, objectRgn)

\* the stencil cache and the stencil set after SetDrawingStencilForObject
SetDrawingStencilForObject(cache, o, objectRgn, ws) ==
    IF ws.first # << >> /\ ws.second # << >>
    THEN IF Reusable(cache, o, objectRgn)
         THEN [cache |-> cache, stencil |-> cache[o].stencil]
         ELSE IF IsInvalid(objectRgn)
              THEN [cache |-> cache, stencil |-> wallStencil]
              ELSE [cache |-> (o :> [stencil |-> CustomStencil(objectRgn, ws.first), rgn |-> objectRgn])
                                  @@ cache,
                    stencil |-> CustomStencil(objectRgn, ws.first)]
    ELSE [cache |-> cache, stencil |-> wallStencil]

\* Map::RedrawScreenStencil: the viewport and the walls of wallStencil after
\* the call, sv and sw being those before it
RedrawScreenStencil(sv, sw, vp, ws) ==
    IF sv = vp THEN [vp |-> sv, walls |-> sw] ELSE [vp |-> vp, walls |-> ws]

\* const auto& viewportWalls = WallsIntersectingRegion(viewport, false);
ViewportWalls(ws, vp) ==
    WallsIntersectingRegion(WallMap, WallGroups(WallMap, ws), ws, vp, FALSE, NoLoc).first

\* SetDrawingStencilForScriptable, ForScriptedAnimation and ForProjectile:
\* nothing is set for an object outside the viewport
SetDrawingStencilFor(cache, ws, obj, o, bbox, vp) ==
    IF ~IntersectsRegion(bbox, vp)
    THEN [cache |-> cache, stencil |-> NoEntry]
    ELSE SetDrawingStencilForObject(cache, o, bbox,
             WallsIntersectingRegion(WallMap, WallGroups(WallMap, ws), ws, bbox, FALSE, obj.Pos))

(***************************************************************************)
(* Specification SpecStencil: frames drawn for an actor, a projectile and  *)
(* a scripted animation standing between two walls, and their removal.     *)
(***************************************************************************)
ViewPort == MkRegion(0, 0, 1280, 960)
BoxBig == MkRegion(590, 390, 120, 120)
BoxSmall == MkRegion(615, 415, 30, 30)
BoxZero == MkRegion(650, 450, 0, 0)
BoxLone == MkRegion(10, 10, 40, 40)
BoxOut == MkRegion(5000, 5000, 10, 10)
DrawBoxes == {BoxBig, BoxSmall, BoxZero, BoxLone, BoxOut}
NotDrawn == [skip |-> TRUE]
ObjectIds == 1 .. 3

InitStencil ==
    /\ walls = << MkWall(WallBoxes[1], FALSE, {LocA}), MkWall(WallBoxes[2], FALSE, {}),
                  MkWall(WallBoxes[3], FALSE, {LocA, LocB}) >>
    /\ objects = << [type |-> "actor", alive |-> TRUE, Pos |-> LocA],
                    [type |-> "projectile", alive |-> TRUE, Pos |-> LocA],
                    [type |-> "scripted", alive |-> TRUE, Pos |-> LocA] >>
    /\ objectStencils = << >>
    /\ stencilViewport = ViewPort
    /\ stencilWalls = ViewportWalls(walls, ViewPort)
    /\ tileProps = Store(MkCell(PASSABLE, 3, 128, 7), 0, MkCell(PASSABLE, 3, 128, 7))
    /\ env = [cutscene |-> FALSE, LargeFog |-> 0, outdoor |-> FALSE, city |-> FALSE]
    /\ actors = << >>
    /\ ExploredBitmap = {}
    /\ VisibleBitmap = {}
    /\ last = Idle
    /\ nops = 0
    /\ NoQueues

StencilFrame == UNCHANGED <<tileProps, actors, ExploredBitmap, VisibleBitmap, env, nops, walls, QueueVars>>

\* what a frame may do with an object: an actor is drawn or is not visible,
\* a scripted animation is drawn or has reached its end, a projectile is drawn
FrameChoices(obj) ==
    IF ~obj.alive THEN {NotDrawn}
    ELSE IF obj.type = "projectile" THEN {BoxBig, BoxSmall, BoxLone}
    ELSE IF obj.type = "scripted" THEN {BoxSmall, BoxBig, BoxZero, NotDrawn}
    ELSE {BoxSmall, BoxZero, BoxOut, NotDrawn}

\* the stencil cache after the objects k .. 3 of the frame
RECURSIVE CacheAfterFrame(_, _, _, _)
CacheAfterFrame(cache, ws, f, k) ==
    IF k > Len(f) THEN cache
    ELSE CacheAfterFrame(
             IF f[k] = NotDrawn THEN cache
             ELSE SetDrawingStencilFor(cache, ws, objects[k], k, f[k], ViewPort).cache,
             ws, f, k + 1)

\* the object loop of DrawMap: a scripted animation that reached its end is
\* deleted, every other object that is drawn gets its stencil
DoDrawMap ==
    \E f \in [ObjectIds -> DrawBoxes \cup {NotDrawn}] :
        /\ \A o \in ObjectIds : f[o] \in FrameChoices(objects[o])
        /\ stencilViewport' = RedrawScreenStencil(stencilViewport, stencilWalls, ViewPort,
                                                  ViewportWalls(walls, ViewPort)).vp
        /\ stencilWalls' = RedrawScreenStencil(stencilViewport, stencilWalls, ViewPort,
                                               ViewportWalls(walls, ViewPort)).walls
        /\ objectStencils' = CacheAfterFrame(objectStencils, walls, f, 1)
        /\ objects' = [o \in ObjectIds |->
                          IF objects[o].alive /\ objects[o].type = "scripted" /\ f[o] = NotDrawn
                          THEN [objects[o] EXCEPT !.alive = FALSE]
                          ELSE objects[o]]
        /\ last' = [op |-> "DrawMap",
                    calls |-> [o \in {k \in ObjectIds : f[k] # NotDrawn} |->
                                 [bbox |-> f[o],
                                  before |-> Entry(objectStencils, o),
                                  stencil |-> SetDrawingStencilFor(objectStencils, walls, objects[o],
                                                                   o, f[o], ViewPort).stencil]]]
        /\ StencilFrame

\* DeleteActor erases the actor's cache entry and removes the actor
DoDeleteActor ==
    \E o \in ObjectIds :
        /\ objects[o].alive /\ objects[o].type = "actor"
        /\ objectStencils' = Erase(objectStencils, o)
        /\ UNCHANGED <<stencilViewport, stencilWalls>>
        /\ objects' = [objects EXCEPT ![o].alive = FALSE]
        /\ last' = [op |-> "DeleteActor", object |-> o]
        /\ StencilFrame

\* UpdateProjectiles deletes the projectiles that are no longer intact
DoUpdateProjectiles ==
    \E gone \in SUBSET {o \in ObjectIds : objects[o].alive /\ objects[o].type = "projectile"} :
        /\ objects' = [o \in ObjectIds |->
                          IF o \in gone THEN [objects[o] EXCEPT !.alive = FALSE] ELSE objects[o]]
        /\ last' = [op |-> "UpdateProjectiles", gone |-> gone]
        /\ UNCHANGED <<objectStencils, stencilViewport, stencilWalls>>
        /\ StencilFrame

NextStencil == DoDrawMap \/ DoDeleteActor \/ DoUpdateProjectiles

SpecStencil == InitStencil /\ [][NextStencil]_vars

(***************************************************************************)
(* The actor queues: SetPriority, GenerateQueues, SortQueues and the run   *)
(* loop of UpdateScripts.  An actor is a record of the fields these read:  *)
(* y is Pos.y, active IF_ACTIVE, idle IF_IDLE, triggerAP IF_TRIGGER_AP,    *)
(* scheduled the value of Schedule(), visible that of IsVisible(Pos),      *)
(* force that of ForceScriptCheck(), dead that of CheckOnDeath(), hostile  *)
(* the condition of HandleAutopauseForVisible on the actor's stats.        *)
(***************************************************************************)
Priority == {"RunScripts", "Display", "Ignore"}
EmptyQueues == [p \in Priority |-> << >>]
Stances == {"twitch", "die", "walk"}

HandleAutopauseForVisibleAlways(actor, doPause) ==
    IF actor.hostile
    THEN [ret |-> TRUE, request |-> ~actor.triggerAP,
          actor |-> [actor EXCEPT !.triggerAP = TRUE]]
    ELSE [ret |-> FALSE, request |-> FALSE, actor |-> actor]

\* the value returned, whether autopause is requested, and the actor afterwards
HandleAutopauseForVisible(actor, doPause) ==
    IF actor.hostile
    THEN [ret |-> TRUE, request |-> doPause /\ ~actor.triggerAP,
          actor |-> [actor EXCEPT !.triggerAP = TRUE]]
    ELSE [ret |-> FALSE, request |-> FALSE, actor |-> actor]

\* the result of SetPriority when the autopause check is made on the actor
Checked(priority, actor, hv) ==
    [priority |-> priority, checked |-> TRUE,
     ret |-> HandleAutopauseForVisible(actor, ~hv).ret,
     request |-> HandleAutopauseForVisible(actor, ~hv).request,
     actor |-> HandleAutopauseForVisible(actor, ~hv).actor]
\* the result of SetPriority when it is not
Unchecked(priority, actor) ==
    [priority |-> priority, checked |-> FALSE, ret |-> FALSE, request |-> FALSE, actor |-> actor]

SetPriorityNoIdle(actor, hv) ==
    IF actor.active
    THEN LET priority == IF actor.stance = "twitch" THEN "Display"
                         ELSE IF actor.scheduled THEN "RunScripts"
                         ELSE "Ignore"
         IN IF actor.visible /\ ~actor.avatarRemoval
            THEN Checked(priority, actor, hv)
            ELSE Unchecked(priority, actor)
    ELSE IF actor.stance \in {"twitch", "die"}
    THEN Unchecked("Display", actor)
    ELSE IF actor.scheduled /\ (actor.visible \/ actor.force)
    THEN IF actor.visible /\ ~actor.avatarRemoval
         THEN Checked("RunScripts", [actor EXCEPT !.active = TRUE], hv)
         ELSE Unchecked("RunScripts", [actor EXCEPT !.active = TRUE])
    ELSE Unchecked("Ignore", actor)

\* the priority of the actor, the actor afterwards, what the autopause check
\* returned (it is or-ed into hostilesNew) and whether it requested a pause
SetPriority(actor, hv) ==
    IF actor.active
    THEN LET priority == IF actor.stance = "twitch" /\ actor.idle THEN "Display"
                         ELSE IF actor.scheduled THEN "RunScripts"
                         ELSE "Ignore"
         IN IF actor.visible /\ ~actor.avatarRemoval
            THEN Checked(priority, actor, hv)
            ELSE Unchecked(priority, actor)
    ELSE IF actor.stance \in {"twitch", "die"}
    THEN Unchecked("Display", actor)
    ELSE IF actor.scheduled /\ (actor.visible \/ actor.force)
    THEN IF actor.visible /\ ~actor.avatarRemoval
         THEN Checked("RunScripts", [actor EXCEPT !.active = TRUE], hv)
         ELSE Unchecked("RunScripts", [actor EXCEPT !.active = TRUE])
    ELSE Unchecked("Ignore", actor)

RemoveAt(seq, i) == SubSeq(seq, 1, i - 1) \o SubSeq(seq, i + 1, Len(seq))
Push(q, priority, id) ==
    IF priority = "Ignore" THEN q ELSE [q EXCEPT ![priority] = Append(@, id)]

\* one turn of the loop of GenerateQueues, on the actor at index i
GenerateStepOneRequest(st, i, hv, r) ==
    IF st.actors[i].dead
    THEN [st EXCEPT !.actors = RemoveAt(@, i), !.deleted = @ \cup {st.actors[i].id}]
    ELSE [st EXCEPT !.actors[i] = r.actor,
                    !.queue = Push(@, r.priority, st.actors[i].id),
                    !.hostilesNew = @ \/ r.ret,
                    !.seen = IF r.ret THEN @ \cup {st.actors[i].id} ELSE @,
                    !.checked = IF r.checked THEN @ \cup {st.actors[i].id} ELSE @,
                    !.requests = IF r.request /\ ~st.hostilesNew THEN @ \cup {st.actors[i].id} ELSE @]

GenerateStep(st, i, hv, r) ==
    IF st.actors[i].dead
    THEN [st EXCEPT !.actors = RemoveAt(@, i), !.deleted = @ \cup {st.actors[i].id}]
    ELSE [st EXCEPT !.actors[i] = r.actor,
                    !.queue = Push(@, r.priority, st.actors[i].id),
                    !.hostilesNew = @ \/ r.ret,
                    !.seen = IF r.ret THEN @ \cup {st.actors[i].id} ELSE @,
                    !.checked = IF r.checked THEN @ \cup {st.actors[i].id} ELSE @,
                    !.requests = IF r.request THEN @ \cup {st.actors[i].id} ELSE @]

\* the loop of GenerateQueues from index i down to the first actor
RECURSIVE GenerateLoop(_, _, _)
GenerateLoop(st, i, hv) ==
    IF i = 0 THEN st
    ELSE GenerateLoop(GenerateStep(st, i, hv, SetPriority(st.actors[i], hv)), i - 1, hv)

GenerateQueuesKeepsQueues(acts, q, hv) ==
    GenerateLoop([actors |-> acts, queue |-> q, hostilesNew |-> FALSE,
                  seen |-> {}, checked |-> {}, requests |-> {}, deleted |-> {}],
                 Len(acts), hv)

\* GenerateQueues: the actors, the queues and hostilesNew afterwards, with the
\* actors it deleted, those the autopause check was made on, those it took
\* for hostile and those it requested a pause for
GenerateQueues(acts, q, hv) ==
    GenerateLoop([actors |-> acts, queue |-> EmptyQueues, hostilesNew |-> FALSE,
                  seen |-> {}, checked |-> {}, requests |-> {}, deleted |-> {}],
                 Len(acts), hv)

ActorById(acts, id) == acts[CHOOSE k \in DOMAIN acts : acts[k].id = id]
\* the rearrangements of the sequence q
Orders(q) == {[k \in DOMAIN q |-> q[pi[k]]] : pi \in Permutations(DOMAIN q)}
SortedAscending(acts, q) ==
    {o \in Orders(q) : \A i, j \in DOMAIN q :
        i < j => ~(ActorById(acts, o[i]).y > ActorById(acts, o[j]).y)}
\* the orders std::sort may leave q in: no later element compares before an
\* earlier one, and elements that compare equal come in any order
Sorted(acts, q) ==
    {o \in Orders(q) : \A i, j \in DOMAIN q :
        i < j => ~(ActorById(acts, o[i]).y < ActorById(acts, o[j]).y)}
\* SortQueues: the queues it may leave
SortQueues(acts, q) ==
    {[RunScripts |-> r, Display |-> d, Ignore |-> i] :
        r \in Sorted(acts, q.RunScripts), d \in Sorted(acts, q.Display), i \in Sorted(acts, q.Ignore)}

Reverse(seq) == [k \in DOMAIN seq |-> seq[Len(seq) + 1 - k]]
RunOrderForward(runQueue, skip) == SelectSeq(runQueue, LAMBDA id : id \notin skip)
\* the actors the run loop of UpdateScripts steps, in the order of the steps
RunOrder(runQueue, skip) == SelectSeq(Reverse(runQueue), LAMBDA id : id \notin skip)

(***************************************************************************)
(* Specification SpecPriority: SetPriority applied to one actor.           *)
(***************************************************************************)
MkQActor(id, y, f) ==
    [id |-> id, y |-> y, active |-> f.active, stance |-> f.stance, idle |-> f.idle,
     scheduled |-> f.scheduled, visible |-> f.visible, force |-> f.force,
     avatarRemoval |-> f.avatarRemoval, hostile |-> f.hostile, triggerAP |-> f.triggerAP,
     dead |-> f.dead, inParty |-> f.inParty]
ActorFlags ==
    [active : BOOLEAN, stance : Stances, idle : BOOLEAN, scheduled : BOOLEAN,
     visible : BOOLEAN, force : BOOLEAN, avatarRemoval : BOOLEAN, hostile : BOOLEAN,
     triggerAP : BOOLEAN, dead : {FALSE}, inParty : {FALSE}]

QueueRest ==
    /\ tileProps = Store(MkCell(PASSABLE, 3, 128, 7), 0, MkCell(PASSABLE, 3, 128, 7))
    /\ env = [cutscene |-> FALSE, LargeFog |-> 0, outdoor |-> FALSE, city |-> FALSE]
    /\ ExploredBitmap = {}
    /\ VisibleBitmap = {}
    /\ last = Idle
    /\ nops = 0
    /\ NoDraw
    /\ queue = EmptyQueues

InitPriority ==
    /\ \E f \in ActorFlags : actors = << MkQActor(1, 0, f) >>
    /\ hostilesVisible \in BOOLEAN
    /\ QueueRest

DoSetPriority ==
    /\ last = Idle
    /\ actors' = << SetPriority(actors[1], hostilesVisible).actor >>
    /\ last' = [op |-> "SetPriority", actor |-> actors[1],
                priority |-> SetPriority(actors[1], hostilesVisible).priority,
                ret |-> SetPriority(actors[1], hostilesVisible).ret,
                request |-> SetPriority(actors[1], hostilesVisible).request]
    /\ UNCHANGED <<tileProps, ExploredBitmap, VisibleBitmap, env, nops, DrawVars, QueueVars>>

NextPriority == DoSetPriority

SpecPriority == InitPriority /\ [][NextPriority]_vars

(***************************************************************************)
(* Specification SpecQueue: the ticks of UpdateScripts on a map of three   *)
(* actors.                                                                 *)
(***************************************************************************)
MaxY == 1
MaxTicks == 1
Awake == [active |-> TRUE, stance |-> "walk", idle |-> FALSE, scheduled |-> TRUE,
          visible |-> TRUE, force |-> FALSE, avatarRemoval |-> FALSE, hostile |-> FALSE,
          triggerAP |-> FALSE, dead |-> FALSE, inParty |-> FALSE]
Asleep == [Awake EXCEPT !.active = FALSE]
PartyMember == [Awake EXCEPT !.inParty = TRUE]
HostileAwake == [Awake EXCEPT !.hostile = TRUE]
HostileKnown == [HostileAwake EXCEPT !.triggerAP = TRUE]
HostileOffDuty == [Asleep EXCEPT !.hostile = TRUE, !.scheduled = FALSE]
HostileAsleep == [Asleep EXCEPT !.hostile = TRUE]
Twitcher == [Awake EXCEPT !.stance = "twitch", !.idle = TRUE, !.visible = FALSE]
Corpse == [Asleep EXCEPT !.stance = "die", !.dead = TRUE]
AwakeOffDuty == [HostileAwake EXCEPT !.scheduled = FALSE]

InitQueue ==
    /\ \E f1 \in {PartyMember, HostileAwake, HostileOffDuty},
          f2 \in {Twitcher, Asleep, Corpse, HostileAsleep},
          f3 \in {HostileAwake, HostileKnown, AwakeOffDuty, PartyMember},
          y2 \in 0 .. MaxY :
          actors = << MkQActor(1, 0, f1), MkQActor(2, y2, f2), MkQActor(3, MaxY, f3) >>
    /\ hostilesVisible \in BOOLEAN
    /\ QueueRest

\* the actors after the run loop: the actors of moved have taken a step that
\* changed their Pos.y
AfterSteps(acts, moved) ==
    [k \in DOMAIN acts |->
        IF acts[k].id \in moved THEN [acts[k] EXCEPT !.y = (@ + 1) % (MaxY + 1)] ELSE acts[k]]

\* one GenerateQueues and SortQueues: what was generated and how it was sorted
Pass(acts, q, hv, gen, sorted) ==
    [actors |-> acts, queue |-> q, hostilesVisible |-> hv, gen |-> gen, sorted |-> sorted]

\* the tick returns after its first GenerateQueues and SortQueues
TickReturnsEarly(gen, sorted, early) ==
    /\ actors' = gen.actors
    /\ queue' = sorted
    /\ hostilesVisible' = gen.hostilesNew
    /\ last' = [op |-> "UpdateScripts", early |-> early, ran |-> << >>,
                passes |-> << Pass(actors, queue, hostilesVisible, gen, sorted) >>]

\* the tick runs the actors and ends with a second GenerateQueues and SortQueues
TickRuns(gen, sorted, ran, moved, gen2, sorted2) ==
    /\ actors' = gen2.actors
    /\ queue' = sorted2
    /\ hostilesVisible' = gen2.hostilesNew
    /\ last' = [op |-> "UpdateScripts", early |-> "no", ran |-> ran,
                passes |-> << Pass(actors, queue, hostilesVisible, gen, sorted),
                              Pass(AfterSteps(gen.actors, moved), sorted, gen.hostilesNew,
                                   gen2, sorted2) >>]

\* the second GenerateQueues and SortQueues of a tick that ran the actors
TickEnds(gen, sorted, ran, moved, gen2) ==
    \E sorted2 \in SortQueues(gen2.actors, gen2.queue) :
        TickRuns(gen, sorted, ran, moved, gen2, sorted2)

\* the run loop: skip is the actor the loop passes over (it moved away, time
\* is stopped for it, it is helpless), moved the one whose step changes Pos.y
TickLoop(gen, sorted) ==
    \E skip \in {{}} \cup {{id} : id \in Range(sorted.RunScripts)} :
    \E moved \in {{}} \cup {{id} : id \in Range(sorted.RunScripts) \ skip} :
    \E gen2 \in {GenerateQueues(AfterSteps(gen.actors, moved), sorted, gen.hostilesNew)} :
        TickEnds(gen, sorted, RunOrder(sorted.RunScripts, skip), moved, gen2)

TickFrom(gen, sorted, MasterArea) ==
    IF ~(\E k \in DOMAIN actors : actors[k].inParty) /\ ~(MasterArea /\ gen.actors # << >>)
    THEN TickReturnsEarly(gen, sorted, "no actors to run")
    ELSE \/ TickReturnsEarly(gen, sorted, "scripts frozen")
         \/ TickLoop(gen, sorted)

\* UpdateScripts, for one value of MasterArea and of DF_FREEZE_SCRIPTS
DoUpdateScripts ==
    /\ nops < MaxTicks
    /\ nops' = nops + 1
    /\ \E MasterArea \in IF \E k \in DOMAIN actors : actors[k].inParty THEN {TRUE} ELSE BOOLEAN :
       \E gen \in {GenerateQueues(actors, queue, hostilesVisible)} :
       \E sorted \in SortQueues(gen.actors, gen.queue) :
           TickFrom(gen, sorted, MasterArea)
    /\ UNCHANGED <<tileProps, ExploredBitmap, VisibleBitmap, env, DrawVars>>

NextQueue == DoUpdateScripts

SpecQueue == InitQueue /\ [][NextQueue]_vars

(***************************************************************************)
(* Claims on the TileProperty store (checked under SpecTile).              *)
(***************************************************************************)
FieldOf(w, prop) == ToU8(Shr(W32And(w, MaskOf(prop)), ShiftOf(prop)))
PointOf(j) == Pt(j % MapW, j \div MapW)
\* the offsets of the cells of the disc of each radius 0 .. 7
OriginDiscs ==
    << Range(OriginScans[1]), Range(OriginScans[2]), Range(OriginScans[3]), Range(OriginScans[4]),
       Range(OriginScans[5]), Range(OriginScans[6]), Range(OriginScans[7]), Range(OriginScans[8]) >>
\* q is a cell of the disc of radius r around p
InDiscR(q, p, r) == Pt(q.x - p.x, q.y - p.y) \in OriginDiscs[r + 1]
InDisc(q, p, blocksize) == InDiscR(q, p, PaintRadius(blocksize))

C1Step ==
    /\ (last'.op = "QueryTileProp" /\ ~PointInside(size, last'.p))
          => last'.ret = (CASE last'.prop = "SEARCH_MAP" -> defaultSearchMap
                            [] last'.prop = "MATERIAL" -> defaultMaterial
                            [] last'.prop = "ELEVATION" -> defaultElevation
                            [] last'.prop = "LIGHTING" -> defaultLighting)
    /\ (last'.op \in {"SetTileProp", "PaintSearchMap"} /\ ~PointInside(size, last'.p))
          => tileProps' = tileProps
    /\ last'.op = "PaintSearchMapCircle"
          => /\ tileProps'.wild = tileProps.wild
             /\ \A j \in Cells :
                   ~InDisc(PointOf(j), last'.p, last'.blocksize)
                      => tileProps'.propPtr[j] = tileProps.propPtr[j]

\* C1: outside the bounds of the store QueryTileProp returns the default of the
\* field asked for; SetTileProp and the single-cell PaintSearchMap at a point
\* outside the bounds leave the whole store unchanged; and the footprint
\* PaintSearchMap writes no element outside the array and no cell other than
\* the cells of its disc that lie inside the bounds.
C1_OutOfBoundsDefaultsAndNoWrite == [][C1Step]_vars

\* an out-of-bounds point whose index p.y * w + p.x lands inside the array
C1_Witness ==
    /\ last.op \in {"SetTileProp", "PaintSearchMap"}
    /\ ~PointInside(size, last.p)
    /\ CellIndex(last.p) \in Cells

C2Step ==
    /\ last'.op = "SetTileProp"
          => /\ tileProps'.wild = tileProps.wild
             /\ \A j \in Cells :
                   \/ tileProps'.propPtr[j] = tileProps.propPtr[j]
                   \/ \A prop \in Property :
                         (j # CellIndex(last'.p) \/ prop # last'.prop)
                            => FieldOf(tileProps'.propPtr[j], prop) = FieldOf(tileProps.propPtr[j], prop)
    /\ last'.op = "PaintSearchMap"
          => /\ tileProps'.wild = tileProps.wild
             /\ \A j \in Cells :
                   \/ tileProps'.propPtr[j] = tileProps.propPtr[j]
                   \/ \A prop \in Property :
                         (j # CellIndex(last'.p) \/ prop # "SEARCH_MAP")
                            => FieldOf(tileProps'.propPtr[j], prop) = FieldOf(tileProps.propPtr[j], prop)
    /\ last'.op = "PaintSearchMapCircle"
          => /\ tileProps'.wild = tileProps.wild
             /\ \A j \in Cells :
                   \/ tileProps'.propPtr[j] = tileProps.propPtr[j]
                   \/ \A prop \in Property :
                         (~InDisc(PointOf(j), last'.p, last'.blocksize) \/ prop # "SEARCH_MAP")
                            => FieldOf(tileProps'.propPtr[j], prop) = FieldOf(tileProps.propPtr[j], prop)

\* C2: a write to one sub-field of a cell changes no other sub-field of that
\* cell and no sub-field of any other cell: SetTileProp changes at most the
\* named field of the addressed cell, the single-cell PaintSearchMap at most
\* the passability of the addressed cell, and the footprint PaintSearchMap at
\* most the passability of the cells of its disc.
C2_SubFieldWritesAreFramed == [][C2Step]_vars

\* a material write that took effect in a cell whose other fields are non-zero
C2_Witness ==
    /\ last.op = "SetTileProp"
    /\ PointInside(size, last.p)
    /\ last.prop = "MATERIAL"
    /\ QueryTileProp(tileProps, last.p, "MATERIAL") = last.val
    /\ QueryTileProp(tileProps, last.p, "LIGHTING") # 0
    /\ QueryTileProp(tileProps, last.p, "SEARCH_MAP") # 0

(***************************************************************************)
(* Claims on footprints (checked under SpecFoot).                          *)
(***************************************************************************)
SearchOf(tp, j) == FieldOf(tp.propPtr[j], "SEARCH_MAP")
FlagOf(actor) == IF actor.pc THEN PC ELSE NPC
\* the cells of the store inside the actor's disc
DiscCells(actor) == {j \in Cells : InDisc(PointOf(j), actor.SMPos, actor.circleSize)}
\* the discs of the two actors share a position
Overlap(a, b) ==
    \E o \in OriginDiscs[PaintRadius(a.circleSize) + 1] :
        InDisc(Pt(a.SMPos.x + o.x, a.SMPos.y + o.y), b.SMPos, b.circleSize)
\* the actor is one ClearSearchMapFor stamps again
StillBlocks(actor) == ~actor.dead /\ actor.sched /\ actor.blocks
Alone(i) == \A k \in ActorIds \ {i} : ~Overlap(actors[i], actors[k])
BlockThenClear == last.op = "ClearSearchMapFor" /\ last.paired /\ Alone(last.a)

\* C3 as stated: after BlockSearchMapFor(entity) directly followed by
\* ClearSearchMapFor(entity), with no other entity's disc overlapping the
\* entity's disc, every cell of the disc has the passability value it had
\* before the block.
C3_AsStated ==
    BlockThenClear =>
        \A j \in DiscCells(actors[last.a]) : SearchOf(tileProps, j) = SearchOf(last.before, j)

\* C3: after BlockSearchMapFor(entity) directly followed by
\* ClearSearchMapFor(entity), with no other entity's disc overlapping the
\* entity's disc, every cell of the disc has the passability value it had
\* before the block with the occupant flags (PC, NPC) cleared: the value before
\* the block itself wherever the cell carried no occupant flag then.
C3_BlockThenClearRestores ==
    BlockThenClear =>
        \A j \in DiscCells(actors[last.a]) :
            /\ SearchOf(tileProps, j) = And8(SearchOf(last.before, j), NOTACTOR)
            /\ ~Has(SearchOf(last.before, j), ACTOR)
                  => SearchOf(tileProps, j) = SearchOf(last.before, j)

\* a block that marked a cell carrying a door flag, and a clear that restored it
C3_Witness ==
    /\ BlockThenClear
    /\ \E j \in DiscCells(actors[last.a]) :
          /\ SearchOf(last.before, j) = Or8(PASSABLE, DOOR_IMPASSABLE)
          /\ SearchOf(last.prev, j) = Or8(SearchOf(last.before, j), FlagOf(actors[last.a]))
          /\ SearchOf(tileProps, j) = SearchOf(last.before, j)

\* every cell of the disc that can be marked carries an occupant flag
Painted(tp, actor) ==
    \A j \in DiscCells(actor) : SearchOf(tp, j) # IMPASSABLE => Has(SearchOf(tp, j), ACTOR)
\* ... and that flag is the actor's own
PaintedOwn(tp, actor) ==
    \A j \in DiscCells(actor) :
        SearchOf(tp, j) # IMPASSABLE => And8(SearchOf(tp, j), ACTOR) = FlagOf(actor)
\* A and B of the claim: A was just cleared, B overlaps it and still blocks
Neighbours ==
    IF last.op = "ClearSearchMapFor"
    THEN {b \in ActorIds \ {last.a} :
             StillBlocks(actors[b]) /\ Overlap(actors[last.a], actors[b])}
    ELSE {}
\* another entity that is stamped again covers the cell
Shared(b, j) ==
    \E c \in ActorIds \ {last.a, b} : StillBlocks(actors[c]) /\ j \in DiscCells(actors[c])

\* C4 as stated: after ClearSearchMapFor(A), for B with a footprint painted
\* and overlapping A's, every non-impassable cell of B's disc carries B's
\* occupant flag.
C4_AsStated ==
    \A b \in Neighbours :
        (Painted(last.prev, actors[last.a]) /\ PaintedOwn(last.prev, actors[b]))
            => PaintedOwn(tileProps, actors[b])

\* C4: after ClearSearchMapFor(A), for every B whose disc overlaps A's and
\* that is still alive, scheduled and blocking, every non-impassable cell of
\* B's disc carries an occupant flag, and that flag is B's own wherever no
\* third entity that is stamped again covers the cell.
C4_NeighbourStaysMarked ==
    \A b \in Neighbours :
        \A j \in DiscCells(actors[b]) :
            SearchOf(tileProps, j) # IMPASSABLE
               => /\ Has(SearchOf(tileProps, j), ACTOR)
                  /\ ~Shared(b, j) => And8(SearchOf(tileProps, j), ACTOR) = FlagOf(actors[b])

\* A and B both painted, A cleared, and a cell of both discs still marked as B's
C4_Witness ==
    \E b \in Neighbours :
        /\ Painted(last.prev, actors[last.a])
        /\ PaintedOwn(last.prev, actors[b])
        /\ \E j \in DiscCells(actors[b]) \cap DiscCells(actors[last.a]) :
              /\ SearchOf(tileProps, j) # IMPASSABLE
              /\ And8(SearchOf(tileProps, j), ACTOR) = FlagOf(actors[b])
              /\ FlagOf(actors[b]) # FlagOf(actors[last.a])

(***************************************************************************)
(* Claims on the passability queries (checked under SpecQuery).            *)
(***************************************************************************)
Queries == {"GetBlockedTile", "GetBlockedInRadiusTile", "GetBlockedInLineTile", "GetBlockedInLine"}
\* the cells the line of the query l stops on
CellsOnLine(l) ==
    IF l.op = "GetBlockedInLineTile"
    THEN LineTileCells(l.s, l.d, l.caller)
    ELSE LineCells(l.s, l.d, l.caller)
\* the cells whose stored value enters the result of the query l
QueryCells(l) ==
    CASE l.op = "GetBlockedTile" ->
            IF l.size = -1 THEN {l.p} ELSE Range(RadiusCells(l.p, l.size % 65536))
      [] l.op = "GetBlockedInRadiusTile" -> Range(RadiusCells(l.p, l.size))
      [] OTHER ->
            IF l.stop /\ l.caller # NoCaller
            THEN UNION {Range(RadiusCells(c, l.caller.circleSize)) : c \in CellsOnLine(l)}
            ELSE CellsOnLine(l)
\* the query l returns early on an impassable cell
EarlyExit(l) ==
    CASE l.op = "GetBlockedTile" -> FALSE
      [] l.op = "GetBlockedInRadiusTile" ->
            l.stop /\ IMPASSABLE \in RadiusFlags(tileProps, l.p, l.size)
      [] OTHER ->
            l.stop /\ \E c \in CellsOnLine(l) :
                         LineStatus(tileProps, c, l.stop, l.caller) = IMPASSABLE

\* C5 as stated: the point query GetBlockedTile(p, -1) and the radius query
\* GetBlockedTile(p, 1) return the same flags, for every cell p and every
\* stored passability value of p.
C5_PointAgreesWithUnitRadius ==
    (last.op = "GetBlockedTile" /\ last.size = -1)
        => last.ret = GetBlockedTileSized(tileProps, last.p, 1)

C7_PassableExcludesBlockers ==
    last.op \in Queries
        => ~(/\ Has(last.ret, PASSABLE)
             /\ Has(last.ret, Or8(Or8(DOOR_IMPASSABLE, ACTOR), SIDEWALL)))

LineQueries == {"GetBlockedInLineTile", "GetBlockedInLine"}

StepBlocked(l, c) ==
    IF l.caller = NoCaller
    THEN QuerySearchMap(tileProps, c) = IMPASSABLE
    ELSE \A q \in Range(RadiusCells(c, l.caller.circleSize)) :
            QuerySearchMap(tileProps, q) = IMPASSABLE

C8_ExploredIsMonotonic ==
    [][last'.op # "FillExplored" => ExploredBitmap \subseteq ExploredBitmap']_vars

\* an update has run and an Explored bit its sweep did not touch is still set
C8_Witness ==
    /\ last.op = "UpdateFog"
    /\ ExploredBitmap \ last.swept # {}

\* C9: in every reachable state, after any sequence of ExploreTile,
\* ExploreMapChunk, UpdateFog and FillExplored calls, every fog cell set in
\* the Visible bitmap is also set in the Explored bitmap.
C9_VisibleWithinExplored == VisibleBitmap \subseteq ExploredBitmap

\* C10: after an UpdateFog call made outside cutscene mode, every fog cell set
\* in the Visible bitmap was marked (ExploreTile with fogOnly = false) by the
\* sweep of that call; no Visible bit survives from an earlier tick.
C10_VisibleIsThisSweep ==
    (last.op = "UpdateFog" /\ ~last.cutscene) => VisibleBitmap \subseteq last.marked

\* an update outside cutscene mode has marked cells visible, and a cell
\* explored before it, which its sweep did not touch, is not visible
C10_Witness ==
    /\ last.op = "UpdateFog"
    /\ ~last.cutscene
    /\ VisibleBitmap # {}
    /\ ExploredBitmap \ last.swept # {}

(***************************************************************************)
(* Claims on the wall groups (checked under SpecWalls).                    *)
(***************************************************************************)
\* wall i passes the tests of the query made last, on the region as passed
Matches(i) ==
    /\ last.includeDisabled \/ ~walls[i].disabled
    /\ IntersectsRegion(last.r, walls[i].BBox)

OpenMap == \A j \in Cells : SearchOf(tileProps, j) = PASSABLE
\* the in-bounds fog cells the first n masks cover around pos
MaskCells(pos, n) ==
    {FogPoint(TileAt(pos, ray[i])) : ray \in VisibilityMasks(n, env.LargeFog), i \in 1 .. n}
        \cap FogPoints(env)
\* an update has just swept for the one explorer of an open map
SweptOpen ==
    /\ last.op = "UpdateFog"
    /\ OpenMap
    /\ Len(actors) = 1
    /\ actors[1].explore /\ ~actors[1].cantsee /\ ~actors[1].blind

\* C13 as stated: the sweep for an entity with visual range R marks every
\* in-bounds fog cell of the masks of radius up to R Explored and Visible; a
\* sweep for range 2 leaves only the radius-2 subset Visible; and the cells
\* Explored before the update remain Explored.
C13_AsStated ==
    SweptOpen =>
        /\ MaskCells(actors[1].SMPos, actors[1].visualRange) \subseteq ExploredBitmap
        /\ MaskCells(actors[1].SMPos, actors[1].visualRange) \subseteq VisibleBitmap
        /\ actors[1].visualRange = 2 => VisibleBitmap = MaskCells(actors[1].SMPos, 2)
        /\ last.before \subseteq ExploredBitmap

\* the number of masks the sweep of the actor covers
SweptMasks(actor) == (IF actor.visualRange < 2 THEN 2 ELSE actor.visualRange) + actor.animCircle

\* C13: on an open map the sweep for an entity with visual range R and
\* circle size c marks every in-bounds fog cell of the first max(R, 2) + c
\* masks Explored and Visible; after an update outside cutscene mode exactly
\* these cells are Visible, whatever was Visible before; and the cells
\* Explored before the update remain Explored.
C13_SweepOfOpenMap ==
    SweptOpen =>
        /\ MaskCells(actors[1].SMPos, SweptMasks(actors[1])) \subseteq ExploredBitmap
        /\ MaskCells(actors[1].SMPos, SweptMasks(actors[1])) \subseteq VisibleBitmap
        /\ ~last.cutscene => VisibleBitmap = MaskCells(actors[1].SMPos, SweptMasks(actors[1]))
        /\ last.before \subseteq ExploredBitmap

\* a tick for range 2 after a tick for a longer range: fewer cells are Visible
\* than were Explored earlier, and those stay Explored
C13_Witness ==
    /\ SweptOpen
    /\ ~last.cutscene
    /\ actors[1].visualRange = 2
    /\ VisibleBitmap # {}
    /\ last.before \ VisibleBitmap # {}
    /\ last.before \subseteq ExploredBitmap

(***************************************************************************)
(* Claims on the stencil cache (checked under SpecStencil).                *)
(***************************************************************************)
\* the walls in front of and behind object o drawn with draw region bbox
WallsOf(o, bbox) ==
    WallsIntersectingRegion(WallMap, WallGroups(WallMap, walls), walls, bbox, FALSE, objects[o].Pos)
\* the call for o in the last frame needed a stencil of its own
NeedsCustom(o) ==
    /\ IntersectsRegion(last.calls[o].bbox, ViewPort)
    /\ WallsOf(o, last.calls[o].bbox).first # << >>
    /\ WallsOf(o, last.calls[o].bbox).second # << >>
\* the entry stored before the call covers the draw region of the call
Covers(o) ==
    /\ last.calls[o].before # NoEntry
    /\ RectInside(last.calls[o].before.rgn, last.calls[o].bbox)
\* the call generated a stencil from the walls in front and stored it
Regenerated(o) ==
    /\ last.calls[o].stencil = CustomStencil(last.calls[o].bbox, WallsOf(o, last.calls[o].bbox).first)
    /\ o \in DOMAIN objectStencils
    /\ objectStencils[o] = [stencil |-> last.calls[o].stencil, rgn |-> last.calls[o].bbox]
\* the call reused the stored stencil and left the entry alone
Reused(o) ==
    /\ last.calls[o].stencil = last.calls[o].before.stencil
    /\ Entry(objectStencils, o) = last.calls[o].before

\* C14 as stated: the cached stencil is reused only if the stored region
\* contains the current draw region; otherwise a new stencil is generated
\* and the entry is replaced with it and the current region.
C14_AsStated ==
    last.op = "DrawMap" =>
        \A o \in DOMAIN last.calls :
            NeedsCustom(o) => IF Covers(o) THEN Reused(o) ELSE Regenerated(o)

\* C14: SetDrawingStencilForObject reuses the cached stencil of an object
\* exactly when the stored region contains the current draw region;
\* otherwise, if the draw region has a positive width and height, a new
\* stencil is generated from the in-front walls and the entry is replaced
\* with it and the current region; if the draw region is empty the shared
\* wall stencil is set and the cache is left as it was.
C14_ReuseOrRegenerate ==
    last.op = "DrawMap" =>
        \A o \in DOMAIN last.calls :
            NeedsCustom(o) =>
                IF Covers(o) THEN Reused(o)
                ELSE IF IsInvalid(last.calls[o].bbox)
                     THEN /\ last.calls[o].stencil = wallStencil
                          /\ Entry(objectStencils, o) = last.calls[o].before
                     ELSE Regenerated(o)

\* a frame reuses one object's entry, replaces another's whose stored region
\* no longer covers it, and draws a third with an empty draw region
C14_Witness ==
    /\ last.op = "DrawMap"
    /\ \E o \in DOMAIN last.calls : NeedsCustom(o) /\ Covers(o) /\ Reused(o)
    /\ \E o \in DOMAIN last.calls :
          /\ NeedsCustom(o) /\ last.calls[o].before # NoEntry /\ ~Covers(o)
          /\ Regenerated(o)
    /\ \E o \in DOMAIN last.calls :
          NeedsCustom(o) /\ ~Covers(o) /\ IsInvalid(last.calls[o].bbox)

\* the call for o in the last frame reached SetDrawingStencilForObject
Stencilled(o) == IntersectsRegion(last.calls[o].bbox, ViewPort)
IsCustom(stencil) == stencil # wallStencil

\* the region has a positive width and height
ValidRegion(r) == r.w > 0 /\ r.h > 0

\* C21 as stated: a custom stencil is selected exactly when both wall sets are
\* non-empty and the object's region is valid; in every other case the
\* shared stencil is selected.
C21_AsStated ==
    last.op = "DrawMap" =>
        \A o \in DOMAIN last.calls :
            Stencilled(o) =>
                IsCustom(last.calls[o].stencil)
                    <=> (NeedsCustom(o) /\ ValidRegion(last.calls[o].bbox))

\* C21: SetDrawingStencilForObject selects a custom stencil exactly when both
\* wall sets are non-empty and either the object's cache entry covers its
\* region (the cached stencil is selected, also for an empty region) or the
\* region is valid (a stencil is rasterized from the in-front walls only);
\* in every other case it selects the shared stencil.
C21_CustomOrShared ==
    last.op = "DrawMap" =>
        \A o \in DOMAIN last.calls :
            Stencilled(o) =>
                /\ IsCustom(last.calls[o].stencil)
                       <=> (NeedsCustom(o) /\ (Covers(o) \/ ValidRegion(last.calls[o].bbox)))
                /\ (IsCustom(last.calls[o].stencil) /\ ~Covers(o))
                       => last.calls[o].stencil.walls = WallsOf(o, last.calls[o].bbox).first

\* a frame selects a cached stencil for an empty region, the shared stencil
\* for an object with walls on one side only, and a new stencil for a third
C21_Witness ==
    /\ last.op = "DrawMap"
    /\ \E o \in DOMAIN last.calls :
          /\ NeedsCustom(o) /\ Covers(o) /\ ~ValidRegion(last.calls[o].bbox)
          /\ IsCustom(last.calls[o].stencil)
    /\ \E o \in DOMAIN last.calls :
          Stencilled(o) /\ ~NeedsCustom(o) /\ last.calls[o].stencil = wallStencil
    /\ \E o \in DOMAIN last.calls :
          NeedsCustom(o) /\ ~Covers(o) /\ IsCustom(last.calls[o].stencil)

\* C15: every key of the stencil cache is an object that still exists.
C15_CacheKeysExist == \A o \in DOMAIN objectStencils : objects[o].alive

(***************************************************************************)
(* Claims on the actor queues (checked under SpecQueue, C19 under          *)
(* SpecPriority).                                                          *)
(***************************************************************************)
Ticked == last.op = "UpdateScripts"
Occurrences(seq, x) == Cardinality({k \in DOMAIN seq : seq[k] = x})
IsPermutation(a, b) ==
    /\ Len(a) = Len(b)
    /\ \A x \in Range(a) \cup Range(b) : Occurrences(a, x) = Occurrences(b, x)
\* Pos.y of the actor when the queues of the pass were sorted
YAtSort(pass, id) == ActorById(pass.gen.actors, id).y
\* the priority class of the actor in the pass
ClassOf(pass, id) == SetPriority(ActorById(pass.actors, id), pass.hostilesVisible).priority
AllQueued(q) == q.RunScripts \o q.Display \o q.Ignore
IdsOf(acts) == {acts[k].id : k \in DOMAIN acts}

\* C16: after SortQueues each priority queue is a permutation of what it held
\* before the call and is ordered by non-increasing y position.
C16_QueuesSortedByY ==
    Ticked =>
        \A k \in DOMAIN last.passes : \A p \in Priority :
            /\ IsPermutation(last.passes[k].sorted[p], last.passes[k].gen.queue[p])
            /\ \A i, j \in DOMAIN last.passes[k].sorted[p] :
                   i < j => YAtSort(last.passes[k], last.passes[k].sorted[p][i])
                                >= YAtSort(last.passes[k], last.passes[k].sorted[p][j])

\* a sort that had to reorder a queue of actors with different y positions
C16_Witness ==
    /\ Ticked
    /\ \E p \in Priority :
          /\ last.passes[1].sorted[p] # last.passes[1].gen.queue[p]
          /\ Len(last.passes[1].sorted[p]) >= 2
          /\ YAtSort(last.passes[1], last.passes[1].sorted[p][1])
                 > YAtSort(last.passes[1], last.passes[1].sorted[p][2])

\* the index of id in the sorted run queue of the tick's first pass
RunIndex(id) ==
    CHOOSE k \in DOMAIN last.passes[1].sorted.RunScripts :
        last.passes[1].sorted.RunScripts[k] = id

\* C17: in one UpdateScripts tick the simulation step is applied only to
\* actors that the tick's first GenerateQueues put in the RunScripts queue,
\* each at most once, from the last index of the sorted queue to the first
\* (by non-decreasing y as of the sort); no actor of the Display or Ignore
\* class is stepped.
C17_OnlyRunQueueSteppedInReverse ==
    Ticked =>
        /\ \A k \in DOMAIN last.ran :
               /\ last.ran[k] \in Range(last.passes[1].gen.queue.RunScripts)
               /\ last.ran[k] \notin Range(last.passes[1].gen.queue.Display)
               /\ ClassOf(last.passes[1], last.ran[k]) = "RunScripts"
               /\ Occurrences(last.ran, last.ran[k]) = 1
        /\ \A i, j \in DOMAIN last.ran :
               i < j => /\ RunIndex(last.ran[i]) > RunIndex(last.ran[j])
                        /\ YAtSort(last.passes[1], last.ran[i]) <= YAtSort(last.passes[1], last.ran[j])

\* two actors of different y are stepped while a Display actor is queued
C17_Witness ==
    /\ Ticked
    /\ Len(last.ran) >= 2
    /\ YAtSort(last.passes[1], last.ran[1]) < YAtSort(last.passes[1], last.ran[2])
    /\ last.passes[1].gen.queue.Display # << >>

\* C18: every GenerateQueues call recomputes the queues from scratch: each
\* queue holds exactly the actors of its class in this pass, every actor
\* still in the map is in at most one queue and at most once, actors of
\* class Ignore are in none, and no actor deleted in the pass is in any.
C18_QueuesRecomputed ==
    Ticked =>
        \A k \in DOMAIN last.passes :
            /\ \A id \in IdsOf(last.passes[k].actors) :
                   Occurrences(AllQueued(last.passes[k].gen.queue), id) <= 1
            /\ Range(AllQueued(last.passes[k].gen.queue)) \subseteq IdsOf(last.passes[k].gen.actors)
            /\ Range(AllQueued(last.passes[k].gen.queue)) \cap last.passes[k].gen.deleted = {}
            /\ last.passes[k].gen.queue.Ignore = << >>
            /\ \A p \in {"RunScripts", "Display"} :
                   Range(last.passes[k].gen.queue[p])
                       = {id \in IdsOf(last.passes[k].gen.actors) : ClassOf(last.passes[k], id) = p}

\* the first pass deletes an actor, the second starts from filled queues and
\* leaves an actor of class Ignore out
C18_Witness ==
    /\ Ticked
    /\ Len(last.passes) = 2
    /\ last.passes[1].gen.deleted # {}
    /\ last.passes[2].queue.RunScripts # << >>
    /\ last.passes[2].gen.queue.RunScripts # << >>
    /\ \E id \in IdsOf(last.passes[2].gen.actors) : ClassOf(last.passes[2], id) = "Ignore"

TwitchIdle(a) == a.stance = "twitch" /\ a.idle
\* C19: SetPriority classifies: active with twitch stance and idle flag ->
\* Display; otherwise active and scheduled -> RunScripts; active and not
\* scheduled -> Ignore; inactive with twitch or die stance -> Display;
\* inactive, scheduled and (visible or force-script-check) -> RunScripts and
\* the actor is activated; every other inactive actor -> Ignore and is not
\* activated.
C19_PriorityTable ==
    last.op = "SetPriority" =>
        /\ (last.actor.active /\ TwitchIdle(last.actor)) => last.priority = "Display"
        /\ (last.actor.active /\ ~TwitchIdle(last.actor) /\ last.actor.scheduled)
               => last.priority = "RunScripts"
        /\ (last.actor.active /\ ~TwitchIdle(last.actor) /\ ~last.actor.scheduled)
               => last.priority = "Ignore"
        /\ (~last.actor.active /\ last.actor.stance \in {"twitch", "die"})
               => last.priority = "Display"
        /\ (~last.actor.active /\ last.actor.stance \notin {"twitch", "die"}
                /\ last.actor.scheduled /\ (last.actor.visible \/ last.actor.force))
               => (last.priority = "RunScripts" /\ actors[1].active)
        /\ (~last.actor.active /\ last.actor.stance \notin {"twitch", "die"}
                /\ ~(last.actor.scheduled /\ (last.actor.visible \/ last.actor.force)))
               => (last.priority = "Ignore" /\ ~actors[1].active)

\* an inactive actor out of sight is activated by the forced script check
C19_Witness ==
    /\ last.op = "SetPriority"
    /\ ~last.actor.active /\ ~last.actor.visible /\ last.actor.force
    /\ last.priority = "RunScripts"
    /\ actors[1].active

\* the pass requests a pause only with hostilesVisible false, for a hostile
\* actor in sight whose IF_TRIGGER_AP was clear
RequestsWhenNotLatched(pass) ==
    \A id \in pass.gen.requests :
        /\ ~pass.hostilesVisible
        /\ ~ActorById(pass.actors, id).triggerAP
        /\ ActorById(pass.actors, id).hostile
        /\ ActorById(pass.actors, id).visible
\* every hostile actor the pass checked has IF_TRIGGER_AP set afterwards
FlagSetAfterCheck(pass) ==
    \A id \in pass.gen.seen : ActorById(pass.gen.actors, id).triggerAP
\* a hostile actor in sight that the pass does not delete
VisibleHostile(a) == ~a.dead /\ a.hostile /\ a.visible /\ ~a.avatarRemoval
\* the actors SetPriority makes the autopause check on
GetsChecked(a) == a.active \/ (a.stance \notin {"twitch", "die"} /\ a.scheduled)

ViewPortB == MkRegion(64, 0, 1280, 960)
DoorViewports == {ViewPort, ViewPortB}
DoorBoxes == {BoxSmall, BoxBig}

InitDoor ==
    /\ walls = << MkWall(WallBoxes[1], FALSE, {LocA}), MkWall(WallBoxes[2], FALSE, {}),
                  MkWall(MkRegion(620, 420, 20, 20), FALSE, {LocA}) >>
    /\ objects = << [type |-> "actor", alive |-> TRUE, Pos |-> LocA] >>
    /\ objectStencils = << >>
    /\ stencilViewport = MkRegion(0, 0, 0, 0)
    /\ stencilWalls = << >>
    /\ tileProps = Store(MkCell(PASSABLE, 3, 128, 7), 0, MkCell(PASSABLE, 3, 128, 7))
    /\ env = [cutscene |-> FALSE, LargeFog |-> 0, outdoor |-> FALSE, city |-> FALSE]
    /\ actors = << >>
    /\ ExploredBitmap = {}
    /\ VisibleBitmap = {}
    /\ last = Idle
    /\ nops = 0
    /\ NoQueues

DoorFrame == UNCHANGED <<tileProps, actors, ExploredBitmap, VisibleBitmap, env, nops, objects, QueueVars>>

\* DrawMap from the viewport vp with the actor drawn in bbox: the shared
\* stencil is redrawn or kept, then the actor gets its stencil
DoDrawMapFrom ==
    \E vp \in DoorViewports, bbox \in DoorBoxes :
        /\ stencilViewport' = RedrawScreenStencil(stencilViewport, stencilWalls, vp,
                                                  ViewportWalls(walls, vp)).vp
        /\ stencilWalls' = RedrawScreenStencil(stencilViewport, stencilWalls, vp,
                                               ViewportWalls(walls, vp)).walls
        /\ objectStencils' = SetDrawingStencilFor(objectStencils, walls, objects[1], 1, bbox, vp).cache
        /\ last' = [op |-> "DrawMap", vp |-> vp, bbox |-> bbox,
                    kept |-> stencilViewport = vp,
                    before |-> Entry(objectStencils, 1),
                    stencil |-> SetDrawingStencilFor(objectStencils, walls, objects[1], 1, bbox, vp).stencil]
        /\ UNCHANGED walls
        /\ DoorFrame

\* a door opens or closes and enables or disables its wall
DoToggleWall ==
    \E i \in DOMAIN walls :
        /\ walls' = [walls EXCEPT ![i].disabled = ~walls[i].disabled]
        /\ last' = [op |-> "ToggleWall", wall |-> i]
        /\ UNCHANGED <<objectStencils, stencilViewport, stencilWalls>>
        /\ DoorFrame

NextDoor == DoDrawMapFrom \/ DoToggleWall

SpecDoor == InitDoor /\ [][NextDoor]_vars

(***************************************************************************)
(* Claims about the rays of a line-of-sight sweep (SpecRay).               *)
(***************************************************************************)
SweptRays == last.op = "ExploreMapChunk" /\ "rays" \in DOMAIN last
StepsOf(r) == DOMAIN r.tiles
MarkedSteps(r) == {m.i : m \in r.marks}
\* the flags the property image holds for the cells of a ray, and the block
\* status the sweep reads for them
StoredOf(r) == [i \in StepsOf(r) |-> QuerySearchMap(tileProps, r.tiles[i])]
StatusOf(r) == [i \in StepsOf(r) |-> GetBlockedTile(tileProps, r.tiles[i])]
\* cell i ends a ray whose cells have the flags f: it blocks sight, or it is
\* the first cell without a side wall after a side wall
Ends(f, i) ==
    \/ Has(f[i], NO_SEE)
    \/ ~Has(f[i], SIDEWALL) /\ \E j \in 1 .. (i - 1) : Has(f[j], SIDEWALL)
HasEnd(f) == \E i \in DOMAIN f : Ends(f, i)
FirstEnd(f) == CHOOSE i \in DOMAIN f : Ends(f, i) /\ \A j \in 1 .. (i - 1) : ~Ends(f, j)
LastStep(f) == IF HasEnd(f) THEN FirstEnd(f) ELSE Len(f)

\* the fog points of the cells of a ray up to its last step
MarkedFog(r) == {FogPoint(r.tiles[i]) : i \in 1 .. LastStep(StatusOf(r))}

\* C22 as stated: on every ray of a line-of-sight sweep, the first cell that
\* carries the no-sight flag, or the first cell without the side-wall flag
\* after a cell with it, is marked and no cell farther out is marked
C22_AsStated ==
    SweptRays =>
        \A r \in last.rays :
            HasEnd(StoredOf(r)) =>
                /\ FirstEnd(StoredOf(r)) \in MarkedSteps(r)
                /\ MarkedSteps(r) \subseteq 1 .. FirstEnd(StoredOf(r))

\* C22: on every ray of a line-of-sight sweep the marked cells are exactly
\* those up to the first cell whose block status (in which a door-opaque cell
\* is a side wall and nothing else) has the no-sight flag, or lacks the
\* side-wall flag after a cell that had it; the explored bits are those of the
\* marked cells
C22_RayStopsOneCellOn ==
    SweptRays =>
        /\ \A r \in last.rays : MarkedSteps(r) = 1 .. LastStep(StatusOf(r))
        /\ ExploredBitmap = UNION {MarkedFog(r) : r \in last.rays} \cap FogPoints(env)

\* a ray that runs past a door-opaque cell carrying the no-sight flag and ends
\* one cell after it, short of its range
C22_Witness ==
    /\ SweptRays
    /\ \E r \in last.rays :
          /\ Has(StoredOf(r)[2], NO_SEE)
          /\ Has(StoredOf(r)[2], DOOR_OPAQUE)
          /\ MarkedSteps(r) = 1 .. 3
          /\ Len(r.tiles) > 3

\* cell i of a ray whose cells have the flags f is a closed door reached
\* before any cell that blocks sight or is a side wall
DoorStep(f, i) ==
    /\ Has(f[i], DOOR_IMPASSABLE)
    /\ \A j \in 1 .. i : ~Has(f[j], NO_SEE) /\ ~Has(f[j], SIDEWALL)
Shrouding == env.outdoor /\ ~env.city
\* the ray marks its cell i, once, with the given fogOnly
MarkedAs(r, i, fogOnly) ==
    /\ [i |-> i, fogOnly |-> fogOnly] \in r.marks
    /\ [i |-> i, fogOnly |-> ~fogOnly] \notin r.marks

\* C23 as stated: a ray cell that carries the door-impassable flag and comes
\* before any cell carrying the no-sight or side-wall flag is marked by the ray
\* as explored only in an outdoor non-city area, and as explored and visible
\* in any other area
C23_AsStated ==
    SweptRays =>
        \A r \in last.rays : \A i \in StepsOf(r) :
            DoorStep(StoredOf(r), i) => MarkedAs(r, i, Shrouding)

\* C23: a ray cell whose block status (in which a door-opaque cell is a side
\* wall and nothing else) carries the door-impassable flag and comes before
\* any cell whose status carries the no-sight or side-wall flag is marked by
\* the ray as explored only in an outdoor non-city area, and as explored and
\* visible in any other area; its explored bit, and in the other areas its
\* visible bit, is set when it lies on the fog map
C23_DoorShroudedOutdoors ==
    SweptRays =>
        \A r \in last.rays : \A i \in StepsOf(r) :
            DoorStep(StatusOf(r), i) =>
                /\ MarkedAs(r, i, Shrouding)
                /\ FogPoint(r.tiles[i]) \in FogPoints(env) =>
                      /\ FogPoint(r.tiles[i]) \in ExploredBitmap
                      /\ ~Shrouding => FogPoint(r.tiles[i]) \in VisibleBitmap

\* an outdoor non-city sweep with a ray that marks a closed door as explored
\* only, the door lying on the fog map
C23_Witness ==
    /\ SweptRays
    /\ Shrouding
    /\ \E r \in last.rays :
          /\ DoorStep(StatusOf(r), 3)
          /\ MarkedAs(r, 3, TRUE)
          /\ ~Has(StoredOf(r)[2], DOOR_IMPASSABLE)
          /\ FogPoint(r.tiles[3]) \in ExploredBitmap

(***************************************************************************)
(* Claims about the radii of the footprint and of the radius query         *)
(* (SpecRadii).                                                            *)
(***************************************************************************)
Stamped == last.op = "PaintSearchMap" /\ "size" \in DOMAIN last
Scanned == last.op = "GetBlockedInRadiusTile" /\ "stop" \notin DOMAIN last
FirstRow == {Pt(x, 0) : x \in 0 .. (MapW - 1)}
\* the cells of the first row within r cells of the centre of the last call
Reached(r) == {c \in FirstRow : c.x - last.p.x <= r}
\* the cells of the first row that carry the stamp, and whether the cell
\* marked NO_SEE showed in the result of the scan
StampedCells == {c \in FirstRow : Has(QuerySearchMap(tileProps, c), PC)}
MarkOf == CHOOSE c \in FirstRow : Has(QuerySearchMap(tileProps, c), NO_SEE)

\* C24 as stated: the stamp reaches clamp(s - 1, 0, 8) cells from its centre
\* and the scan clamp(s - 2, 0, 8) cells
C24_AsStated ==
    /\ Stamped => StampedCells = Reached(Clamp(last.size - 1, 0, MAX_CIRCLESIZE))
    /\ Scanned => (Has(last.ret, NO_SEE) <=> MarkOf \in Reached(Clamp(last.size - 2, 0, MAX_CIRCLESIZE)))

\* C24: the stamp reaches clamp(s, 1, 8) - 1 cells from its centre and the
\* scan clamp(s, 2, 8) - 2 cells, at most 7 and 6; for every size the stamp
\* reaches at least as far as the scan, and exactly one cell farther for
\* every size from 2 up
C24_StampOneCellLarger ==
    /\ Stamped => StampedCells = Reached(Clamp(last.size, 1, MAX_CIRCLESIZE) - 1)
    /\ Scanned => (Has(last.ret, NO_SEE) <=> MarkOf \in Reached(Clamp(last.size, 2, MAX_CIRCLESIZE) - 2))
    /\ (Stamped \/ Scanned) =>
          /\ PaintRadius(last.size) >= BlockRadius(last.size)
          /\ last.size >= 2 => PaintRadius(last.size) = BlockRadius(last.size) + 1
          /\ last.size < 2 => PaintRadius(last.size) = BlockRadius(last.size)

\* a stamp of size 9 centred 7 cells left of the map, which reaches its first
\* cell and no farther
C24_Witness ==
    /\ Stamped
    /\ last.size = MAX_CIRCLESIZE + 1
    /\ last.p.x = 1 - MAX_CIRCLESIZE
    /\ StampedCells = {Pt(0, 0)}

(***************************************************************************)
(* Claims about sight and walkability along a line (SpecLine).             *)
(***************************************************************************)
SightTested == last.op = "IsVisibleLOS"
WalkTested == last.op = "IsWalkableTo"
\* the cells the line of the last test steps into after leaving its start cell
Stepped ==
    IF last.tile THEN LineTileCells(last.s, last.d, last.caller)
    ELSE LineCells(last.s, last.d, last.caller)
\* the stepped cells that carry one of the flags
SteppedWith(flags) == {c \in Stepped : Has(QuerySearchMap(tileProps, c), flags)}

\* C25: IsVisibleLOS is false exactly when some cell the line steps into after
\* leaving the start cell carries the side-wall or the door-opaque flag,
\* whatever impassable, door-impassable or occupied cells it crosses; a line
\* of length zero is visible
C25_SightBlockedByWallsOnly ==
    SightTested =>
        /\ ~last.ret <=> SteppedWith(Or8(SIDEWALL, DOOR_OPAQUE)) # {}
        /\ last.s = last.d => last.ret

\* a line that crosses an impassable cell and an occupied cell and is visible,
\* tested with a mover of stride 2
C25_Witness ==
    /\ SightTested
    /\ last.ret
    /\ last.caller # NoCaller
    /\ SteppedWith(ACTOR) # {}
    /\ \E c \in Stepped : c \in FirstRow /\ QuerySearchMap(tileProps, c) = IMPASSABLE

\* the line of the last test is cut short: a cell it steps into has the
\* block status IMPASSABLE
CutShort == \E c \in Stepped : LineStatus(tileProps, c, TRUE, last.caller) = IMPASSABLE

\* C26: IsWalkableTo with actorsAreBlocking false returns false whenever the
\* line crosses a cell carrying the side-wall or the door-impassable flag or
\* is cut short by an impassable cell, occupied cells on the line or not
C26_WallsNeverForgiven ==
    (WalkTested /\ ~last.actorsAreBlocking) =>
        ((SteppedWith(Or8(SIDEWALL, DOOR_IMPASSABLE)) # {} \/ CutShort) => ~last.ret)

(***************************************************************************)
(* Claims on repeated walls in the result of a query (SpecWalls).          *)
(***************************************************************************)
\* how often wall i occurs in the two groups returned
Returned(i) ==
    Cardinality({k \in DOMAIN last.ret.first : last.ret.first[k] = i})
        + Cardinality({k \in DOMAIN last.ret.second : last.ret.second[k] = i})
\* the groups the query made last visits, and those of them that refer to wall i
VisitedGroups == {GroupsVisited(WallMap, ClipRegion(last.r))[k] :
                     k \in DOMAIN GroupsVisited(WallMap, ClipRegion(last.r))}
Registered(i) == {g \in VisitedGroups : IntersectsRegion(GroupRegion(WallMap, g), walls[i].BBox)}

\* C27 as stated: every wall matched by the query occurs exactly once in the
\* groups returned
C27_AsStated ==
    last.op = "WallsIntersectingRegion" =>
        \A i \in DOMAIN walls : Matches(i) => Returned(i) = 1

\* C27: every wall matched by the query occurs in the groups returned once
\* for each visited 640x480 group that refers to it, all on the same side;
\* a wall that is not matched does not occur
C27_OncePerVisitedGroup ==
    last.op = "WallsIntersectingRegion" =>
        \A i \in DOMAIN walls :
            /\ Matches(i) => Returned(i) = Cardinality(Registered(i))
            /\ Matches(i) => Returned(i) >= 1
            /\ ~Matches(i) => Returned(i) = 0

\* a query over several groups that returns a wall four times and another
\* wall once
C27_Witness ==
    /\ last.op = "WallsIntersectingRegion"
    /\ Cardinality(VisitedGroups) > 1
    /\ \E i \in DOMAIN walls : Matches(i) /\ Returned(i) = 4
    /\ \E i \in DOMAIN walls : Matches(i) /\ Returned(i) = 1

(***************************************************************************)
(* Claims about stencils kept across frames (SpecDoor).                    *)
(***************************************************************************)
\* the last frame kept the shared stencil as it was
KeptShared == last.op = "DrawMap" /\ "kept" \in DOMAIN last /\ last.kept
\* the last frame set the actor's cached stencil
KeptCustom ==
    /\ last.op = "DrawMap" /\ "kept" \in DOMAIN last
    /\ last.before # NoEntry
    /\ last.stencil = last.before.stencil
\* the enabled walls the last frame would draw into the shared stencil and
\* into the actor's stencil
SharedNow == Range(ViewportWalls(walls, last.vp))
CustomNow ==
    Range(WallsIntersectingRegion(WallMap, WallGroups(WallMap, walls), walls, last.bbox, FALSE,
                                  objects[1].Pos).first)

\* C28: a stencil that a frame keeps rather than redraws was drawn from the
\* enabled walls the frame would draw it from
C28_NoStaleStencil ==
    /\ KeptShared => Range(stencilWalls) = SharedNow
    /\ KeptCustom => Range(last.stencil.walls) = CustomNow

(***************************************************************************)
(* Claims about the pause requests of one pass (SpecQueue).                *)
(***************************************************************************)
\* the actors a pass starts with on which the autopause check finds a hostile
\* actor whose IF_TRIGGER_AP flag is clear
NewHostiles(pass) ==
    {pass.actors[i].id : i \in {k \in DOMAIN pass.actors :
                                   /\ VisibleHostile(pass.actors[k])
                                   /\ GetsChecked(pass.actors[k])
                                   /\ ~pass.actors[k].triggerAP}}

\* C29 as stated: a GenerateQueues pass requests at most one pause
C29_AsStated ==
    Ticked => \A k \in DOMAIN last.passes : Cardinality(last.passes[k].gen.requests) <= 1

\* C29: a GenerateQueues pass that starts with hostilesVisible false requests
\* one pause for every hostile actor the autopause check is made on and whose
\* IF_TRIGGER_AP flag is clear; a pass that starts with it true requests none
C29_OneRequestPerNewHostile ==
    Ticked =>
        \A k \in DOMAIN last.passes :
            last.passes[k].gen.requests =
                IF last.passes[k].hostilesVisible THEN {} ELSE NewHostiles(last.passes[k])

\* a pass that requests a pause for each of two hostile actors, followed by a
\* pass that requests none
C29_Witness ==
    /\ Ticked
    /\ Len(last.passes) = 2
    /\ Cardinality(last.passes[1].gen.requests) = 2
    /\ last.passes[2].gen.requests = {}

(***************************************************************************)
(* Claims about the draw of an enemy in sight (SpecEnemy).                 *)
(***************************************************************************)
\* C30: GetRandomEnemySeen reads no element outside its neighbour list, and
\* with an empty list it returns null without reading any element
C30_NeverReadsOutside ==
    (last.op = "GetRandomEnemySeen" /\ ~last.out.early) =>
        /\ last.out.index < Len(last.out.neighbours)
        /\ last.out.neighbours = << >> => last.out.ret = Null

====
